---- MODULE Spec2Model ----
(***************************************************************************)
(* Critical CSS selection engine: CSSParser (parseCSS, filterCSSRules,     *)
(* deduplicateRules, deduplicateDeclarations) of src/lib/css-parser.js and *)
(* the CSS_CONSTANTS tables of src/lib/extractor.js.                       *)
(*                                                                         *)
(* JavaScript strings are modelled as sequences of one-character strings,  *)
(* so that includes(), startsWith(), split(), the regular expressions and  *)
(* the template-literal keys are computed character by character.          *)
(***************************************************************************)
EXTENDS Integers, Sequences, FiniteSets, TLC

VARIABLES pc, options, ast, aboveFoldSelectors, input, rules, calls,
          css, fault,
          desktopAst, desktopParsed, combined,
          task, main, combineCalls,
          requestCounts, now, admittedAt, response,
          renderer, fetcher, heap, runs

\* the CSSParser pipeline of one extraction
parserVars == <<pc, options, ast, aboveFoldSelectors, input, rules, calls>>

\* the text handed to parseCSS and whether parsing or walking it throws
textVars == <<css, fault>>

\* combineMobileDesktopCSS: the desktop side and the text returned
combineVars == <<desktopAst, desktopParsed, combined>>

\* extractForBothViewports: the two extractions and the awaiting caller
asyncVars == <<task, main, combineCalls>>

\* the rate limiter of /api/extract
limiterVars == <<requestCounts, now, admittedAt, response>>

\* the PlaywrightRenderer, its StylesheetFetcher, the objects the stages of
\* the parser work on, and the record of the runs of the core pipeline
laterVars == <<renderer, fetcher, heap, runs>>

vars == <<parserVars, textVars, combineVars, asyncVars, limiterVars, laterVars>>

(***************************************************************************)
(* Bounds of the model.                                                    *)
(***************************************************************************)
MaxRules == 3

MaxDecls == 3

MaxNodes == 2

MaxSignals == 2

MaxCalls == 2

MaxTicks == 2

MaxOtherRequests == 2

(***************************************************************************)
(* The parts of the state a specification does not exercise stay as they   *)
(* are before the corresponding code has run.                              *)
(***************************************************************************)
Viewports == {"mobile", "desktop"}

NoText ==
  /\ css = <<>>
  /\ fault = FALSE

NoCombine ==
  /\ desktopAst = <<>>
  /\ desktopParsed = <<>>
  /\ combined = <<>>

NoExtraction ==
  /\ task = [v \in Viewports |-> [pc |-> "idle", error |-> FALSE]]
  /\ main = "idle"
  /\ combineCalls = 0

NoRequests ==
  /\ requestCounts = <<>>
  /\ now = 0
  /\ admittedAt = <<>>
  /\ response = <<>>

NoLater ==
  /\ renderer = <<>>
  /\ fetcher = <<>>
  /\ heap = <<>>
  /\ runs = <<>>

(***************************************************************************)
(* String primitives (the methods of String.prototype).                    *)
(***************************************************************************)
LowerLetters ==
  {"a","b","c","d","e","f","g","h","i","j","k","l","m",
   "n","o","p","q","r","s","t","u","v","w","x","y","z"}

UpperLetters ==
  {"A","B","C","D","E","F","G","H","I","J","K","L","M",
   "N","O","P","Q","R","S","T","U","V","W","X","Y","Z"}

Digits == {"0","1","2","3","4","5","6","7","8","9"}

\* \s of a JavaScript regular expression, and the characters trim() strips
WhiteSpaceChars == {" ", "\t", "\n", "\r", "\f"}

\* the value `undefined`: no sequence of characters equals it
Undefined == <<"undefined">>

\* a value the `||` and `!` operators treat as false
Falsy(s) == s = Undefined \/ s = <<>>

RECURSIVE Concat(_)
\* Array.prototype.join('') of a sequence of strings
Concat(parts) ==
  IF parts = <<>> THEN <<>> ELSE Head(parts) \o Concat(Tail(parts))

RECURSIVE Join(_, _)
\* Array.prototype.join(sep)
Join(parts, sep) ==
  IF parts = <<>> THEN <<>>
  ELSE IF Len(parts) = 1 THEN Head(parts)
  ELSE Head(parts) \o sep \o Join(Tail(parts), sep)

\* String.prototype.includes
Includes(s, sub) ==
  \E i \in 0..(Len(s) - Len(sub)) : SubSeq(s, i + 1, i + Len(sub)) = sub

\* String.prototype.startsWith
StartsWith(s, prefix) ==
  Len(s) >= Len(prefix) /\ SubSeq(s, 1, Len(prefix)) = prefix

\* String.prototype.substring(from) with from counted from 0
Substring(s, from) == SubSeq(s, from + 1, Len(s))

LowerOf ==
  [c \in UpperLetters |->
     CASE c = "A" -> "a" [] c = "B" -> "b" [] c = "C" -> "c" [] c = "D" -> "d"
       [] c = "E" -> "e" [] c = "F" -> "f" [] c = "G" -> "g" [] c = "H" -> "h"
       [] c = "I" -> "i" [] c = "J" -> "j" [] c = "K" -> "k" [] c = "L" -> "l"
       [] c = "M" -> "m" [] c = "N" -> "n" [] c = "O" -> "o" [] c = "P" -> "p"
       [] c = "Q" -> "q" [] c = "R" -> "r" [] c = "S" -> "s" [] c = "T" -> "t"
       [] c = "U" -> "u" [] c = "V" -> "v" [] c = "W" -> "w" [] c = "X" -> "x"
       [] c = "Y" -> "y" [] c = "Z" -> "z"]

\* String.prototype.toLowerCase
ToLowerCase(s) ==
  [i \in 1..Len(s) |-> IF s[i] \in UpperLetters THEN LowerOf[s[i]] ELSE s[i]]

\* String.prototype.trim
Trim(s) ==
  LET keep == {i \in 1..Len(s) : s[i] \notin WhiteSpaceChars}
  IN IF keep = {} THEN <<>>
     ELSE SubSeq(s, CHOOSE i \in keep : \A j \in keep : i <= j,
                    CHOOSE i \in keep : \A j \in keep : j <= i)

\* String.prototype.split(c) for a one-character separator
Split(s, c) ==
  LET cuts == {i \in 1..Len(s) : s[i] = c}
      bounds == {0} \cup cuts \cup {Len(s) + 1}
      NextCut(i) == CHOOSE j \in bounds : j > i /\ \A k \in bounds : k > i => j <= k
      Starts == {0} \cup cuts
      RECURSIVE From(_)
      From(i) ==
        <<SubSeq(s, i + 1, NextCut(i) - 1)>>
          \o (IF NextCut(i) = Len(s) + 1 THEN <<>> ELSE From(NextCut(i)))
  IN From(0)

(***************************************************************************)
(* CSS_CONSTANTS (lib/constants).                                          *)
(***************************************************************************)
ALLOWED_PROPERTIES == {
    <<"d","i","s","p","l","a","y">>,
    <<"p","o","s","i","t","i","o","n">>,
    <<"t","o","p">>,
    <<"l","e","f","t">>,
    <<"r","i","g","h","t">>,
    <<"b","o","t","t","o","m">>,
    <<"z","-","i","n","d","e","x">>,
    <<"f","l","e","x">>,
    <<"f","l","e","x","-","d","i","r","e","c","t","i","o","n">>,
    <<"f","l","e","x","-","w","r","a","p">>,
    <<"f","l","e","x","-","f","l","o","w">>,
    <<"j","u","s","t","i","f","y","-","c","o","n","t","e","n","t">>,
    <<"a","l","i","g","n","-","i","t","e","m","s">>,
    <<"a","l","i","g","n","-","c","o","n","t","e","n","t">>,
    <<"g","r","i","d">>,
    <<"g","r","i","d","-","t","e","m","p","l","a","t","e","-","c","o","l","u","m","n","s">>,
    <<"g","r","i","d","-","t","e","m","p","l","a","t","e","-","r","o","w","s">>,
    <<"g","r","i","d","-","t","e","m","p","l","a","t","e","-","a","r","e","a","s">>,
    <<"g","r","i","d","-","a","u","t","o","-","c","o","l","u","m","n","s">>,
    <<"g","r","i","d","-","a","u","t","o","-","r","o","w","s">>,
    <<"g","r","i","d","-","a","u","t","o","-","f","l","o","w">>,
    <<"w","i","d","t","h">>,
    <<"h","e","i","g","h","t">>,
    <<"m","i","n","-","w","i","d","t","h">>,
    <<"m","i","n","-","h","e","i","g","h","t">>,
    <<"m","a","x","-","w","i","d","t","h">>,
    <<"m","a","x","-","h","e","i","g","h","t">>,
    <<"m","a","r","g","i","n">>,
    <<"m","a","r","g","i","n","-","t","o","p">>,
    <<"m","a","r","g","i","n","-","l","e","f","t">>,
    <<"m","a","r","g","i","n","-","r","i","g","h","t">>,
    <<"m","a","r","g","i","n","-","b","o","t","t","o","m">>,
    <<"p","a","d","d","i","n","g">>,
    <<"p","a","d","d","i","n","g","-","t","o","p">>,
    <<"p","a","d","d","i","n","g","-","l","e","f","t">>,
    <<"p","a","d","d","i","n","g","-","r","i","g","h","t">>,
    <<"p","a","d","d","i","n","g","-","b","o","t","t","o","m">>,
    <<"f","o","n","t","-","f","a","m","i","l","y">>,
    <<"f","o","n","t","-","s","i","z","e">>,
    <<"f","o","n","t","-","w","e","i","g","h","t">>,
    <<"f","o","n","t","-","s","t","y","l","e">>,
    <<"f","o","n","t","-","v","a","r","i","a","n","t">>,
    <<"l","i","n","e","-","h","e","i","g","h","t">>,
    <<"l","e","t","t","e","r","-","s","p","a","c","i","n","g">>,
    <<"w","o","r","d","-","s","p","a","c","i","n","g">>,
    <<"t","e","x","t","-","a","l","i","g","n">>,
    <<"t","e","x","t","-","d","e","c","o","r","a","t","i","o","n">>,
    <<"t","e","x","t","-","t","r","a","n","s","f","o","r","m">>,
    <<"t","e","x","t","-","i","n","d","e","n","t">>,
    <<"w","h","i","t","e","-","s","p","a","c","e">>,
    <<"c","o","l","o","r">>,
    <<"b","a","c","k","g","r","o","u","n","d">>,
    <<"b","a","c","k","g","r","o","u","n","d","-","c","o","l","o","r">>,
    <<"b","a","c","k","g","r","o","u","n","d","-","i","m","a","g","e">>,
    <<"b","a","c","k","g","r","o","u","n","d","-","r","e","p","e","a","t">>,
    <<"b","a","c","k","g","r","o","u","n","d","-","p","o","s","i","t","i","o","n">>,
    <<"b","a","c","k","g","r","o","u","n","d","-","s","i","z","e">>,
    <<"b","a","c","k","g","r","o","u","n","d","-","a","t","t","a","c","h","m","e","n","t">>,
    <<"b","o","r","d","e","r">>,
    <<"b","o","r","d","e","r","-","c","o","l","o","r">>,
    <<"b","o","r","d","e","r","-","s","t","y","l","e">>,
    <<"b","o","r","d","e","r","-","w","i","d","t","h">>,
    <<"b","o","r","d","e","r","-","t","o","p">>,
    <<"b","o","r","d","e","r","-","l","e","f","t">>,
    <<"b","o","r","d","e","r","-","r","i","g","h","t">>,
    <<"b","o","r","d","e","r","-","b","o","t","t","o","m">>,
    <<"b","o","r","d","e","r","-","r","a","d","i","u","s">>,
    <<"o","p","a","c","i","t","y">>,
    <<"v","i","s","i","b","i","l","i","t","y">>,
    <<"o","v","e","r","f","l","o","w">>,
    <<"o","v","e","r","f","l","o","w","-","x">>,
    <<"o","v","e","r","f","l","o","w","-","y">>,
    <<"t","r","a","n","s","f","o","r","m">>,
    <<"t","r","a","n","s","f","o","r","m","-","o","r","i","g","i","n">>,
    <<"a","s","p","e","c","t","-","r","a","t","i","o">>,
    <<"o","b","j","e","c","t","-","f","i","t">>,
    <<"o","b","j","e","c","t","-","p","o","s","i","t","i","o","n">>
}

EXCLUDED_SELECTORS == <<
    <<":","h","o","v","e","r">>,
    <<":","f","o","c","u","s">>,
    <<":","a","c","t","i","v","e">>,
    <<":","v","i","s","i","t","e","d">>,
    <<":","l","i","n","k">>,
    <<":",":","-","w","e","b","k","i","t","-","s","c","r","o","l","l","b","a","r">>,
    <<":",":","-","m","o","z","-","s","c","r","o","l","l","b","a","r">>
>>

(***************************************************************************)
(* Rule model: the object literals built by processRule, processFontFace   *)
(* and processDeclarations.                                                *)
(***************************************************************************)
MkDeclaration(property, value, important) ==
  [property |-> property, value |-> value, important |-> important]

MkRule(selector, declarations, mediaQuery) ==
  [selector |-> selector, declarations |-> declarations, mediaQuery |-> mediaQuery]

(***************************************************************************)
(* Rule optimizer: deduplicateRules / deduplicateDeclarations.             *)
(* A JavaScript Map is a sequence of entries in insertion order.           *)
(***************************************************************************)
MapHas(m, key) == \E i \in 1..Len(m) : m[i].key = key

MapGet(m, key) == m[CHOOSE i \in 1..Len(m) : m[i].key = key].value

\* MapSet with a delete before the set: the key moves to the last place
MapSetMovesLast(m, key, value) ==
  LET others(e) == e.key # key
  IN Append(SelectSeq(m, others), [key |-> key, value |-> value])

\* Map.prototype.set: an existing key keeps its place, a new key goes last
MapSet(m, key, value) ==
  IF MapHas(m, key)
  THEN [i \in 1..Len(m) |-> IF m[i].key = key THEN [key |-> key, value |-> value] ELSE m[i]]
  ELSE Append(m, [key |-> key, value |-> value])

\* Array.from(map.values())
MapValues(m) == [i \in 1..Len(m) |-> m[i].value]

RECURSIVE dedupDeclLoopLastWins(_, _)
\* dedupDeclLoop keeping "the higher importance or the last one": a later
\* occurrence replaces the kept one unless only the kept one is important
dedupDeclLoopLastWins(declarations, seen) ==
  IF declarations = <<>> THEN seen
  ELSE LET decl == Head(declarations)
           key == decl.property
       IN IF ~MapHas(seen, key)
             \/ ~(MapGet(seen, key).important /\ ~decl.important)
          THEN dedupDeclLoopLastWins(Tail(declarations), MapSet(seen, key, decl))
          ELSE dedupDeclLoopLastWins(Tail(declarations), seen)

RECURSIVE dedupDeclLoop(_, _)
dedupDeclLoop(declarations, seen) ==
  IF declarations = <<>> THEN seen
  ELSE LET decl == Head(declarations)
           key == decl.property
       IN IF ~MapHas(seen, key)
             \/ (decl.important /\ ~MapGet(seen, key).important)
          THEN dedupDeclLoop(Tail(declarations), MapSet(seen, key, decl))
          ELSE dedupDeclLoop(Tail(declarations), seen)

deduplicateDeclarations(declarations) ==
  MapValues(dedupDeclLoop(declarations, <<>>))

\* the template literal `${rule.selector}|${rule.mediaQuery || ''}`
ruleKey(rule) ==
  rule.selector \o <<"|">> \o (IF Falsy(rule.mediaQuery) THEN <<>> ELSE rule.mediaQuery)

RECURSIVE dedupRuleLoop(_, _, _)
dedupRuleLoop(rs, seen, uniqueRules) ==
  IF rs = <<>> THEN uniqueRules
  ELSE LET rule == Head(rs)
           key == ruleKey(rule)
       IN IF key \notin seen
          THEN dedupRuleLoop(Tail(rs), seen \cup {key},
                 Append(uniqueRules,
                   [rule EXCEPT !.declarations = deduplicateDeclarations(rule.declarations)]))
          ELSE dedupRuleLoop(Tail(rs), seen, uniqueRules)

\* deduplicateRules with uniqueRules.unshift in place of uniqueRules.push
deduplicateRulesUnshift(rs) ==
  LET pushed == dedupRuleLoop(rs, {}, <<>>)
  IN [i \in 1..Len(pushed) |-> pushed[Len(pushed) + 1 - i]]

deduplicateRules(rs) == dedupRuleLoop(rs, {}, <<>>)

(***************************************************************************)
(* Strings used as inputs.                                                 *)
(***************************************************************************)
str_color == <<"c","o","l","o","r">>

str_background == <<"b","a","c","k","g","r","o","u","n","d">>

str_red == <<"r","e","d">>

str_blue == <<"b","l","u","e">>

str_a == <<"a">>

str_ns_b == <<"a","|","b">>

str_c == <<"c">>

str_b_bar_c == <<"b","|","c">>

str_dot_x == <<".","x">>

\* all sequences over S of length at most n
SeqsUpTo(S, n) == UNION {[1..k -> S] : k \in 0..n}

(***************************************************************************)
(* Inputs of deduplicateRules: one rule with every declaration list up to  *)
(* MaxDecls, and every list of up to MaxRules rules over selectors and     *)
(* media queries of which some contain the key separator.                  *)
(***************************************************************************)
DedupDecls ==
  {MkDeclaration(p, v, i) :
     p \in {str_color, str_background}, v \in {str_red, str_blue}, i \in BOOLEAN}

RichRuleSets ==
  {<<MkRule(str_dot_x, d, Undefined)>> : d \in SeqsUpTo(DedupDecls, MaxDecls) \ {<<>>}}

WideRules ==
  {MkRule(s, <<MkDeclaration(str_color, v, FALSE)>>, m) :
     s \in {str_a, str_ns_b}, v \in {str_red, str_blue},
     m \in {Undefined, <<>>, str_c, str_b_bar_c}}

WideRuleSets == SeqsUpTo(WideRules, MaxRules)

DefaultOptions ==
  [includeShadows |-> FALSE, includeAnimations |-> FALSE,
   includeTransitions |-> FALSE, includeHoverStates |-> FALSE]

InitDedupe ==
  /\ pc = "rules"
  /\ options = DefaultOptions
  /\ ast = <<>>
  /\ aboveFoldSelectors = {}
  /\ input = <<>>
  /\ rules \in RichRuleSets \cup WideRuleSets
  /\ calls = 0
  /\ NoText /\ NoCombine /\ NoExtraction /\ NoRequests
  /\ NoLater

\* this.cssParser.deduplicateRules(rules), on the rules at hand
CallDeduplicateRules ==
  /\ pc \in {"rules", "filtered", "deduped"}
  /\ calls < MaxCalls
  /\ input' = rules
  /\ rules' = deduplicateRules(rules)
  /\ pc' = "deduped"
  /\ calls' = calls + 1
  /\ UNCHANGED <<options, ast, aboveFoldSelectors>>
  /\ UNCHANGED <<textVars, combineVars, asyncVars, limiterVars>>
  /\ UNCHANGED laterVars

NextDedupe == CallDeduplicateRules

SpecDedupe == InitDedupe /\ [][NextDedupe]_vars

(***************************************************************************)
(* Claims about the rule optimizer (SpecDedupe).                           *)
(***************************************************************************)
\* C1: deduplicateRules is idempotent: applied to its own result it returns
\* that result, rule for rule and declaration for declaration, in order.
C1_Idempotent == (pc = "deduped" /\ calls >= 2) => rules = input

C1_Witness ==
  /\ pc = "deduped" /\ calls = 2
  /\ Len(rules) >= 2
  /\ \E i \in 1..Len(rules) : Len(rules[i].declarations) >= 1

PropertiesOf(ds) == {ds[i].property : i \in 1..Len(ds)}

MinOf(S) == CHOOSE i \in S : \A j \in S : i <= j

\* the occurrence of property p the claim says survives
Survivor(ds, p) ==
  LET occ == {i \in 1..Len(ds) : ds[i].property = p}
      imp == {i \in occ : ds[i].important}
  IN IF ds[MinOf(occ)].important \/ imp = {} THEN ds[MinOf(occ)] ELSE ds[MinOf(imp)]

OnePerProperty(ds, out) ==
  /\ Len(out) = Cardinality(PropertiesOf(ds))
  /\ \A p \in PropertiesOf(ds) :
       \E k \in 1..Len(out) : out[k] = Survivor(ds, p)

\* the rules of the input that output rule i can come from
SourcesOf(i) ==
  {j \in 1..Len(input) :
     /\ input[j].selector = rules[i].selector
     /\ input[j].mediaQuery = rules[i].mediaQuery}

PairKey(r) == <<r.selector, IF Falsy(r.mediaQuery) THEN <<>> ELSE r.mediaQuery>>

FirstOfKey(rs) ==
  {i \in 1..Len(rs) : \A j \in 1..(i - 1) : PairKey(rs[j]) # PairKey(rs[i])}

\* C3: one output rule per distinct (selector, mediaQuery-or-empty) pair, in
\* order of first appearance, holding the deduplicated declarations of the
\* first rule with that pair and nothing of the later ones.
C3_OneRulePerKey ==
  (pc = "deduped" /\ calls = 1) =>
    /\ Len(rules) = Cardinality(FirstOfKey(input))
    /\ \A k \in 1..Len(rules) :
         \E i \in FirstOfKey(input) :
           /\ Cardinality({j \in FirstOfKey(input) : j <= i}) = k
           /\ rules[k] = [input[i] EXCEPT
                            !.declarations = deduplicateDeclarations(input[i].declarations)]

FirstPos(ds, p) == MinOf({i \in 1..Len(ds) : ds[i].property = p})

FirstOccurrenceOrder(ds, out) ==
  /\ PropertiesOf(out) = PropertiesOf(ds)
  /\ \A a, b \in 1..Len(out) :
       a < b => FirstPos(ds, out[a].property) < FirstPos(ds, out[b].property)

\* C4: the surviving declarations stand in the order in which their
\* properties first occur in the input, also when one was replaced.
C4_FirstOccurrenceOrder ==
  (pc = "deduped" /\ calls = 1) =>
    \A i \in 1..Len(rules) :
      \E j \in SourcesOf(i) : FirstOccurrenceOrder(input[j].declarations, rules[i].declarations)

C4_Witness ==
  /\ pc = "deduped" /\ calls = 1
  /\ input = <<MkRule(str_dot_x,
                 <<MkDeclaration(str_color, str_red, FALSE),
                   MkDeclaration(str_background, str_red, FALSE),
                   MkDeclaration(str_color, str_blue, TRUE)>>, Undefined)>>
  /\ rules[1].declarations =
       <<MkDeclaration(str_color, str_blue, TRUE),
         MkDeclaration(str_background, str_red, FALSE)>>

(***************************************************************************)
(* Selector matcher: filterCSSRules / matchesSelector.                     *)
(* The regular expressions are computed on the characters: a match is      *)
(* given by the place it starts and the greedy run that follows.           *)
(***************************************************************************)
Letters == LowerLetters \cup UpperLetters

\* [a-zA-Z0-9_-]
NameChars == Letters \cup Digits \cup {"_", "-"}

\* [a-zA-Z0-9]
AlnumChars == Letters \cup Digits

\* [\s>+~]
CombinatorChars == WhiteSpaceChars \cup {">", "+", "~"}

\* the last index of the greedy run of characters of class C that starts at i
RunEnd(s, i, C) ==
  CHOOSE e \in (i - 1)..Len(s) :
    /\ \A k \in i..e : s[k] \in C
    /\ (e = Len(s) \/ s[e + 1] \notin C)

\* s.match(/\.([a-zA-Z0-9_-]+)/g): the matched texts, each with its dot
classMatches(s) ==
  {SubSeq(s, i, RunEnd(s, i + 1, NameChars)) :
     i \in {k \in 1..(Len(s) - 1) : s[k] = "." /\ s[k + 1] \in NameChars}}

\* the places where /#([a-zA-Z0-9_-]+)/ can match
idMatchStarts(s) == {k \in 1..(Len(s) - 1) : s[k] = "#" /\ s[k + 1] \in NameChars}

\* s.match(/#([a-zA-Z0-9_-]+)/): without the g flag only the first match is
\* returned; idMatch[1] is its group, Undefined stands for a null result
idMatch(s) ==
  IF idMatchStarts(s) = {} THEN Undefined
  ELSE LET i == CHOOSE k \in idMatchStarts(s) : \A j \in idMatchStarts(s) : k <= j
       IN SubSeq(s, i + 1, RunEnd(s, i + 1, NameChars))

\* s.match(/(?:^|[\s>+~])([a-zA-Z][a-zA-Z0-9]*)/g): the matched texts, each
\* with the combinator character it starts with (none at the start of s)
tagMatches(s) ==
  (IF Len(s) >= 1 /\ s[1] \in Letters
   THEN {SubSeq(s, 1, RunEnd(s, 1, AlnumChars))} ELSE {})
  \cup
  {SubSeq(s, i, RunEnd(s, i + 1, AlnumChars)) :
     i \in {k \in 1..(Len(s) - 1) : s[k] \in CombinatorChars /\ s[k + 1] \in Letters}}

\* t.replace(/^[\s>+~]+/, '')
stripCombinators(t) == Substring(t, RunEnd(t, 1, CombinatorChars))

\* s.match(/^([a-zA-Z][a-zA-Z0-9]*)/)[1], Undefined for a null result
startsWithTag(s) ==
  IF Len(s) >= 1 /\ s[1] \in Letters
  THEN SubSeq(s, 1, RunEnd(s, 1, AlnumChars)) ELSE Undefined

matchesSelector(cssSelector, tagSelectors, classSelectors, idSelectors) ==
  \/ idMatch(cssSelector) # Undefined /\ idMatch(cssSelector) \in idSelectors
  \/ \E match \in classMatches(cssSelector) : Substring(match, 1) \in classSelectors
  \/ \E match \in tagMatches(cssSelector) :
       LET tagName == ToLowerCase(stripCombinators(Trim(match)))
       IN tagName # <<>> /\ tagName \in tagSelectors
  \/ startsWithTag(cssSelector) # Undefined
       /\ ToLowerCase(startsWithTag(cssSelector)) \in tagSelectors

\* the three lookup sets filterCSSRules builds from the above-fold selectors
idSelectorsOf(selectors) ==
  {Substring(sel, 1) : sel \in {x \in selectors : StartsWith(x, <<"#">>)}}

classSelectorsOf(selectors) ==
  {Substring(sel, 1) :
     sel \in {x \in selectors : ~StartsWith(x, <<"#">>) /\ StartsWith(x, <<".">>)}}
  \cup UNION {{Substring(match, 1) : match \in classMatches(sel)} : sel \in selectors}

tagSelectorsOf(selectors) ==
  {ToLowerCase(sel) :
     sel \in {x \in selectors :
                /\ ~StartsWith(x, <<"#">>) /\ ~StartsWith(x, <<".">>)
                /\ ~Includes(x, <<".">>) /\ ~Includes(x, <<"#">>)}}

str_font_face == <<"@","f","o","n","t","-","f","a","c","e">>

str_root == <<":","r","o","o","t">>

str_html == <<"h","t","m","l">>

str_body == <<"b","o","d","y">>

str_star == <<"*">>

\* isCriticalRule without the test for the universal selector
isCriticalRuleNoStar(rule, selectors) ==
  \/ rule.selector = str_font_face
  \/ rule.selector = str_root
  \/ rule.selector = str_html
  \/ rule.selector = str_body
  \/ LET branches == Split(rule.selector, ",")
     IN \E i \in 1..Len(branches) :
          matchesSelector(Trim(branches[i]), tagSelectorsOf(selectors),
                          classSelectorsOf(selectors), idSelectorsOf(selectors))

\* the predicate of rules.filter(...)
isCriticalRule(rule, selectors) ==
  \/ rule.selector = str_font_face
  \/ rule.selector = str_root
  \/ rule.selector = str_html
  \/ rule.selector = str_body
  \/ rule.selector = str_star
  \/ LET branches == Split(rule.selector, ",")
     IN \E i \in 1..Len(branches) :
          matchesSelector(Trim(branches[i]), tagSelectorsOf(selectors),
                          classSelectorsOf(selectors), idSelectorsOf(selectors))

filterCSSRules(rs, selectors) ==
  LET keep(rule) == isCriticalRule(rule, selectors) IN SelectSeq(rs, keep)

(***************************************************************************)
(* Inputs of filterCSSRules: rules as parseCSS builds them, and the        *)
(* selectors extractCriticalCSS collects from the above-fold elements      *)
(* (`#id`, `tag.class`, `.class`, `tag`).                                  *)
(***************************************************************************)
str_id_a_id_b == <<"#","a"," ","#","b">>

str_dot_hero == <<".","h","e","r","o">>

str_p_comma_id_b == <<"p",","," ","#","b">>

str_ul_li == <<"u","l"," ",">"," ","l","i">>

str_DIV == <<"D","I","V">>

str_id_a == <<"#","a">>

str_id_b == <<"#","b">>

str_div == <<"d","i","v">>

str_div_hero == <<"d","i","v",".","h","e","r","o">>

str_min_width == <<"(","m","i","n","-","w","i","d","t","h",":"," ","1","p","x",")">>

AlwaysSelectors == {str_html, str_body, str_root, str_star, str_font_face}

FilterRulePool ==
  {MkRule(sel, <<MkDeclaration(str_color, str_red, FALSE)>>, Undefined) :
     sel \in AlwaysSelectors
              \cup {str_id_a_id_b, str_dot_hero, str_p_comma_id_b, str_ul_li, str_DIV}}
  \cup
  {MkRule(sel, <<MkDeclaration(str_background, str_blue, TRUE)>>, str_min_width) :
     sel \in AlwaysSelectors}

SignalPool == {str_id_a, str_id_b, str_dot_hero, str_div, str_div_hero}

SignalSets == {S \in SUBSET SignalPool : Cardinality(S) <= MaxSignals}

InitFilter ==
  /\ pc = "parsed"
  /\ options = DefaultOptions
  /\ ast = <<>>
  /\ aboveFoldSelectors \in SignalSets
  /\ input = <<>>
  /\ rules \in SeqsUpTo(FilterRulePool, MaxNodes)
  /\ calls = 0
  /\ NoText /\ NoCombine /\ NoExtraction /\ NoRequests
  /\ NoLater

\* this.cssParser.filterCSSRules(cssRules, aboveFoldSelectors)
CallFilterCSSRules ==
  /\ pc = "parsed"
  /\ input' = rules
  /\ rules' = filterCSSRules(rules, aboveFoldSelectors)
  /\ pc' = "filtered"
  /\ UNCHANGED <<options, ast, aboveFoldSelectors, calls>>
  /\ UNCHANGED <<textVars, combineVars, asyncVars, limiterVars>>
  /\ UNCHANGED laterVars

NextFilter == CallFilterCSSRules

SpecFilter == InitFilter /\ [][NextFilter]_vars

(***************************************************************************)
(* Claims about the selector matcher (SpecFilter).                         *)
(***************************************************************************)
Retained(rule) == \E k \in 1..Len(rules) : rules[k] = rule

\* C5: whatever the signals, declarations and media query, every rule whose
\* selector is exactly html, body, :root, * or @font-face is retained.
C5_AlwaysCritical ==
  pc = "filtered" =>
    LET always(rule) == rule.selector \in AlwaysSelectors
    IN SelectSeq(rules, always) = SelectSeq(input, always)

C5_Witness ==
  /\ pc = "filtered"
  /\ aboveFoldSelectors = {}
  /\ Len(input) = 2
  /\ input[1].selector = str_star
  /\ input[2].selector = str_dot_hero
  /\ rules = <<input[1]>>

\* the id tokens `#<id>` of a branch, wherever they sit in it
IdTokens(branch) ==
  {SubSeq(branch, i + 1, RunEnd(branch, i + 1, NameChars)) : i \in idMatchStarts(branch)}

\* C6: a rule is retained whenever any comma-branch of its selector holds
\* an id token whose id was observed, wherever the token sits in the branch.
C6_AnyObservedId ==
  pc = "filtered" =>
    \A j \in 1..Len(input) :
      (\E i \in 1..Len(Split(input[j].selector, ",")) :
         IdTokens(Split(input[j].selector, ",")[i])
           \cap idSelectorsOf(aboveFoldSelectors) # {})
      => Retained(input[j])

(***************************************************************************)
(* The syntax tree css-tree hands to parseCSS.  Every node is a record of  *)
(* the same shape; a field a node kind does not have is empty.  The text   *)
(* of a leaf is `value`, the value subtree of a Declaration or a           *)
(* MediaFeature is `valueNode`; absent children are the empty list.        *)
(***************************************************************************)
NoNode == [type |-> "null"]

Node(type) ==
  [type |-> type, name |-> <<>>, value |-> <<>>, unit |-> <<>>, left |-> <<>>,
   right |-> <<>>, property |-> <<>>, important |-> FALSE, matcher |-> <<>>,
   prelude |-> NoNode, block |-> NoNode, valueNode |-> NoNode, children |-> <<>>]

Named(type, name) == [Node(type) EXCEPT !.name = name]

Valued(type, value) == [Node(type) EXCEPT !.value = value]

Parent(type, children) == [Node(type) EXCEPT !.children = children]

DimensionNode(value, unit) == [Node("Dimension") EXCEPT !.value = value, !.unit = unit]

FunctionNode(name, children) ==
  [Node("Function") EXCEPT !.name = name, !.children = children]

PseudoClassNode(name, children) ==
  [Node("PseudoClassSelector") EXCEPT !.name = name, !.children = children]

AttributeNode(name, matcher, value) ==
  [Node("AttributeSelector") EXCEPT !.name = name, !.matcher = matcher, !.value = value]

DeclarationNode(property, valueNode, important) ==
  [Node("Declaration") EXCEPT
     !.property = property, !.valueNode = valueNode, !.important = important]

RuleNode(prelude, block) ==
  [Node("Rule") EXCEPT !.prelude = prelude, !.block = block]

AtruleNode(name, prelude, block) ==
  [Node("Atrule") EXCEPT !.name = name, !.prelude = prelude, !.block = block]

(***************************************************************************)
(* CSS parser adapter: parseCSS and its closures.  `this.options` is the   *)
(* parameter opts.  A function that returns an object or null returns a    *)
(* list of one element or the empty list.                                  *)
(***************************************************************************)
RECURSIVE generateSelector(_)
generateSelector(prelude) ==
  IF prelude.type = "Raw" THEN Trim(prelude.value)
  ELSE IF prelude.type = "SelectorList" THEN
    LET sels == [i \in 1..Len(prelude.children) |-> generateSelector(prelude.children[i])]
        nonEmpty(x) == x # <<>>
    IN Join(SelectSeq(sels, nonEmpty), <<",", " ">>)
  ELSE IF prelude.type = "Selector" THEN
    LET part(child) ==
          CASE child.type = "TypeSelector" -> child.name
            [] child.type = "ClassSelector" -> <<".">> \o child.name
            [] child.type = "IdSelector" -> <<"#">> \o child.name
            [] child.type = "AttributeSelector" ->
                 IF child.matcher # <<>> /\ child.value # <<>>
                 THEN <<"[">> \o child.name \o child.matcher
                        \o <<"\"">> \o child.value \o <<"\"">> \o <<"]">>
                 ELSE <<"[">> \o child.name \o <<"]">>
            [] child.type = "PseudoClassSelector" ->
                 LET childSelectors ==
                       [i \in 1..Len(child.children) |-> generateSelector(child.children[i])]
                 IN <<":">> \o child.name
                      \o (IF Len(childSelectors) > 0
                          THEN <<"(">> \o Concat(childSelectors) \o <<")">>
                          ELSE <<>>)
            [] child.type = "PseudoElementSelector" -> <<":", ":">> \o child.name
            [] child.type = "Combinator" ->
                 LET val == IF child.name # <<>> THEN child.name
                            ELSE IF child.value # <<>> THEN child.value ELSE <<" ">>
                 IN IF val = <<" ">> THEN <<" ">> ELSE <<" ">> \o val \o <<" ">>
            [] child.type = "WhiteSpace" -> <<" ">>
            [] OTHER -> <<>>
    IN Concat([i \in 1..Len(prelude.children) |-> part(prelude.children[i])])
  ELSE <<>>

RECURSIVE generateMediaQuery(_)
generateMediaQuery(prelude) ==
  LET parts == [i \in 1..Len(prelude.children) |-> generateMediaQuery(prelude.children[i])]
      nonEmpty(x) == x # <<>>
  IN
  IF prelude = NoNode THEN <<>>
  ELSE IF prelude.type = "Raw" THEN Trim(prelude.value)
  ELSE IF prelude.type = "MediaQueryList" THEN Join(SelectSeq(parts, nonEmpty), <<",", " ">>)
  ELSE IF prelude.type = "MediaQuery" THEN Join(SelectSeq(parts, nonEmpty), <<" ">>)
  ELSE IF prelude.type = "MediaFeature" THEN
    IF prelude.valueNode # NoNode
    THEN <<"(">> \o prelude.name \o <<":", " ">>
           \o generateMediaQuery(prelude.valueNode) \o <<")">>
    ELSE <<"(">> \o prelude.name \o <<")">>
  ELSE IF prelude.type = "Identifier" THEN prelude.name
  ELSE IF prelude.type = "Number" THEN prelude.value
  ELSE IF prelude.type = "Dimension" THEN prelude.value \o prelude.unit
  ELSE IF prelude.type = "Ratio" THEN prelude.left \o <<"/">> \o prelude.right
  ELSE IF prelude.type = "Operator" THEN prelude.value
  ELSE Join(SelectSeq(parts, nonEmpty), <<" ">>)

RECURSIVE generateValue(_)
generateValue(valueNode) ==
  LET parts == [i \in 1..Len(valueNode.children) |-> generateValue(valueNode.children[i])]
  IN
  IF valueNode = NoNode THEN <<>>
  ELSE IF valueNode.type = "Raw" THEN Trim(valueNode.value)
  ELSE IF valueNode.type = "Value" THEN Concat(parts)
  ELSE IF valueNode.type = "Identifier" THEN valueNode.name
  ELSE IF valueNode.type = "Number" THEN
    (IF valueNode.value # <<>> THEN valueNode.value ELSE <<"0">>)
  ELSE IF valueNode.type = "String" THEN <<"\"">> \o valueNode.value \o <<"\"">>
  ELSE IF valueNode.type = "Dimension" THEN valueNode.value \o valueNode.unit
  ELSE IF valueNode.type = "Percentage" THEN valueNode.value \o <<"%">>
  ELSE IF valueNode.type = "Hash" THEN <<"#">> \o valueNode.value
  ELSE IF valueNode.type = "Function" THEN
    valueNode.name \o <<"(">> \o Concat(parts) \o <<")">>
  ELSE IF valueNode.type = "Url" THEN <<"u", "r", "l", "(">> \o valueNode.value \o <<")">>
  ELSE IF valueNode.type = "Operator" THEN valueNode.value
  ELSE IF valueNode.type = "WhiteSpace" THEN <<" ">>
  ELSE IF valueNode.type = "Comma" THEN <<",", " ">>
  ELSE Concat(parts)

str_hover == <<":","h","o","v","e","r">>

\* shouldExcludeSelector comparing with === where the code calls includes
shouldExcludeSelectorExact(selector, opts) ==
  \/ \E i \in 1..Len(EXCLUDED_SELECTORS) : selector = EXCLUDED_SELECTORS[i]
  \/ ~opts.includeHoverStates /\ Includes(selector, str_hover)

\* shouldExcludeSelector with the two negations of the hover test misplaced
shouldExcludeSelectorInverted(selector, opts) ==
  \/ \E i \in 1..Len(EXCLUDED_SELECTORS) : Includes(selector, EXCLUDED_SELECTORS[i])
  \/ opts.includeHoverStates /\ ~Includes(selector, str_hover)

shouldExcludeSelector(selector, opts) ==
  \/ \E i \in 1..Len(EXCLUDED_SELECTORS) : Includes(selector, EXCLUDED_SELECTORS[i])
  \/ ~opts.includeHoverStates /\ Includes(selector, str_hover)

str_shadow == <<"s","h","a","d","o","w">>

str_box_shadow == <<"b","o","x","-","s","h","a","d","o","w">>

str_animation == <<"a","n","i","m","a","t","i","o","n">>

str_keyframes == <<"k","e","y","f","r","a","m","e","s">>

str_transition == <<"t","r","a","n","s","i","t","i","o","n">>

str_none == <<"n","o","n","e">>

str_initial == <<"i","n","i","t","i","a","l">>

str_unset == <<"u","n","s","e","t">>

\* shouldIncludeProperty without the test of the value
shouldIncludePropertyAnyValue(property, value, opts) ==
  IF property \notin ALLOWED_PROPERTIES THEN FALSE
  ELSE IF ~opts.includeShadows
          /\ (Includes(property, str_shadow) \/ Includes(property, str_box_shadow))
  THEN FALSE
  ELSE IF ~opts.includeAnimations
          /\ (Includes(property, str_animation) \/ Includes(property, str_keyframes))
  THEN FALSE
  ELSE IF ~opts.includeTransitions /\ Includes(property, str_transition) THEN FALSE
  ELSE TRUE

\* the policy with box-shadow on the list of allowed properties
shouldIncludePropertyShadowListed(property, value, opts) ==
  IF property \notin ALLOWED_PROPERTIES \cup {str_box_shadow} THEN FALSE
  ELSE IF ~opts.includeShadows
          /\ (Includes(property, str_shadow) \/ Includes(property, str_box_shadow))
  THEN FALSE
  ELSE IF ~opts.includeAnimations
          /\ (Includes(property, str_animation) \/ Includes(property, str_keyframes))
  THEN FALSE
  ELSE IF ~opts.includeTransitions /\ Includes(property, str_transition) THEN FALSE
  ELSE IF value = str_none \/ value = str_initial \/ value = str_unset THEN FALSE
  ELSE TRUE

shouldIncludeProperty(property, value, opts) ==
  IF property \notin ALLOWED_PROPERTIES THEN FALSE
  ELSE IF ~opts.includeShadows
          /\ (Includes(property, str_shadow) \/ Includes(property, str_box_shadow))
  THEN FALSE
  ELSE IF ~opts.includeAnimations
          /\ (Includes(property, str_animation) \/ Includes(property, str_keyframes))
  THEN FALSE
  ELSE IF ~opts.includeTransitions /\ Includes(property, str_transition) THEN FALSE
  ELSE IF value = str_none \/ value = str_initial \/ value = str_unset THEN FALSE
  ELSE TRUE

processDeclarations(children, opts) ==
  LET isDeclaration(child) == child.type = "Declaration"
      decls == SelectSeq(children, isDeclaration)
      built == [i \in 1..Len(decls) |->
                  MkDeclaration(decls[i].property, generateValue(decls[i].valueNode),
                                decls[i].important = TRUE)]
      admitted(d) == shouldIncludeProperty(d.property, d.value, opts)
  IN SelectSeq(built, admitted)

processRule(node, mediaQuery, opts) ==
  IF node.prelude = NoNode \/ node.block = NoNode THEN <<>>
  ELSE LET selector == generateSelector(node.prelude)
       IN IF selector = <<>> \/ shouldExcludeSelector(selector, opts) THEN <<>>
          ELSE LET declarations == processDeclarations(node.block.children, opts)
               IN IF Len(declarations) = 0 THEN <<>>
                  ELSE <<MkRule(selector, declarations, mediaQuery)>>

processFontFace(node, opts) ==
  IF node.block = NoNode THEN <<>>
  ELSE LET declarations == processDeclarations(node.block.children, opts)
       IN IF Len(declarations) = 0 THEN <<>>
          ELSE <<MkRule(str_font_face, declarations, Undefined)>>

str_media == <<"m","e","d","i","a">>

str_at_font_face == <<"f","o","n","t","-","f","a","c","e">>

RECURSIVE walkOuterMedia(_, _, _)
\* a walk in which a nested @media keeps the media query already in force
walkOuterMedia(node, mediaQuery, opts) ==
  IF node.type = "Rule" THEN processRule(node, mediaQuery, opts)
  ELSE IF node.type = "Atrule" THEN
    IF node.name = str_media THEN
      IF node.block # NoNode
      THEN Concat([i \in 1..Len(node.block.children) |->
                     walkOuterMedia(node.block.children[i],
                                    IF mediaQuery # Undefined THEN mediaQuery
                                    ELSE generateMediaQuery(node.prelude), opts)])
      ELSE <<>>
    ELSE IF node.name = str_at_font_face THEN processFontFace(node, opts)
    ELSE <<>>
  ELSE Concat([i \in 1..Len(node.children) |->
                 walkOuterMedia(node.children[i], mediaQuery, opts)])

RECURSIVE walk(_, _, _)
\* the rules the traversal of node pushes, in the order it pushes them
walk(node, mediaQuery, opts) ==
  IF node.type = "Rule" THEN processRule(node, mediaQuery, opts)
  ELSE IF node.type = "Atrule" THEN
    IF node.name = str_media THEN
      IF node.block # NoNode
      THEN Concat([i \in 1..Len(node.block.children) |->
                     walk(node.block.children[i], generateMediaQuery(node.prelude), opts)])
      ELSE <<>>
    ELSE IF node.name = str_at_font_face THEN processFontFace(node, opts)
    ELSE <<>>
  ELSE Concat([i \in 1..Len(node.children) |-> walk(node.children[i], mediaQuery, opts)])

\* parseCSS on the tree css-tree built from the text: walk(ast)
parseCSS(tree, opts) == walk(tree, Undefined, opts)

\* how a call ends: it returns a value or it throws
Return(value) == [kind |-> "return", value |-> value]

Throw == [kind |-> "throw", value |-> <<>>]

\* The try block of parseCSS.  text is the argument and tree what css-tree
\* builds from it; throws says whether css-tree or the walk raises on it.
\* Reading css.length of undefined raises a TypeError.
parseCSSTry(text, tree, throws, opts) ==
  IF text = Undefined THEN Throw
  ELSE IF Falsy(text) \/ Len(Trim(text)) = 0 THEN Return(<<>>)
  ELSE IF throws THEN Throw
  ELSE Return(parseCSS(tree, opts))

\* parseCSS without its catch clause
parseCSSNoCatch(text, tree, throws, opts) == parseCSSTry(text, tree, throws, opts)

\* parseCSS(css): the try block and the catch clause, which returns []
parseCSSText(text, tree, throws, opts) ==
  LET c == parseCSSTry(text, tree, throws, opts)
  IN  IF c.kind = "throw" THEN Return(<<>>) ELSE c

(***************************************************************************)
(* Inputs of parseCSS: style sheets whose one block runs over every list   *)
(* of declarations up to MaxDecls, and style sheets of up to MaxNodes      *)
(* nodes over the selectors the exclusion list is about.                   *)
(***************************************************************************)
str_display == <<"d","i","s","p","l","a","y">>

str_cursor == <<"c","u","r","s","o","r">>

str_pointer == <<"p","o","i","n","t","e","r">>

str_margin == <<"m","a","r","g","i","n">>

str_auto == <<"a","u","t","o">>

str_ease == <<"e","a","s","e">>

str_div_tag == str_div

str_hero == <<"h","e","r","o">>

str_supports == <<"s","u","p","p","o","r","t","s">>

IdentValue(name) == Parent("Value", <<Named("Identifier", name)>>)

D_color_red == DeclarationNode(str_color, IdentValue(str_red), FALSE)

D_display_none == DeclarationNode(str_display, IdentValue(str_none), FALSE)

D_cursor_pointer == DeclarationNode(str_cursor, IdentValue(str_pointer), FALSE)

D_box_shadow == DeclarationNode(str_box_shadow, IdentValue(str_red), FALSE)

D_animation == DeclarationNode(str_animation, IdentValue(str_ease), FALSE)

D_transition == DeclarationNode(str_transition, IdentValue(str_ease), FALSE)

D_margin ==
  DeclarationNode(str_margin,
    Parent("Value", <<Valued("Number", <<"0">>), Node("WhiteSpace"),
                      Named("Identifier", str_auto)>>), TRUE)

DeclNodePool ==
  {D_color_red, D_display_none, D_cursor_pointer, D_box_shadow, D_animation,
   D_transition, D_margin}

SelectorOf(parts) == Parent("Selector", parts)

ListOf(selectors) == Parent("SelectorList", selectors)

T_a == Named("TypeSelector", str_a)

P_a == ListOf(<<SelectorOf(<<T_a>>)>>)

P_hero == ListOf(<<SelectorOf(<<Named("ClassSelector", str_hero)>>)>>)

P_a_hover == ListOf(<<SelectorOf(<<T_a, PseudoClassNode(<<"h","o","v","e","r">>, <<>>)>>)>>)

P_a_a_focus ==
  ListOf(<<SelectorOf(<<T_a>>),
           SelectorOf(<<T_a, PseudoClassNode(<<"f","o","c","u","s">>, <<>>)>>)>>)

P_a_active == ListOf(<<SelectorOf(<<T_a, PseudoClassNode(<<"a","c","t","i","v","e">>, <<>>)>>)>>)

P_a_visited == ListOf(<<SelectorOf(<<T_a, PseudoClassNode(<<"v","i","s","i","t","e","d">>, <<>>)>>)>>)

P_a_not_link ==
  ListOf(<<SelectorOf(<<T_a,
     PseudoClassNode(<<"n","o","t">>,
       <<ListOf(<<SelectorOf(<<PseudoClassNode(<<"l","i","n","k">>, <<>>)>>)>>)>>)>>)>>)

P_webkit_scrollbar ==
  ListOf(<<SelectorOf(<<Named("TypeSelector", str_div_tag),
     Named("PseudoElementSelector", <<"-","w","e","b","k","i","t","-","s","c","r","o","l","l","b","a","r">>)>>)>>)

P_moz_scrollbar ==
  ListOf(<<SelectorOf(<<Named("TypeSelector", str_div_tag),
     Named("PseudoElementSelector", <<"-","m","o","z","-","s","c","r","o","l","l","b","a","r">>)>>)>>)

PreludePool ==
  {P_a, P_hero, P_a_hover, P_a_a_focus, P_a_active, P_a_visited, P_a_not_link,
   P_webkit_scrollbar, P_moz_scrollbar}

BlockOf(children) == Parent("Block", children)

\* @media (min-width: 1px)
M_min_width ==
  Parent("MediaQueryList",
    <<Parent("MediaQuery",
        <<[Node("MediaFeature") EXCEPT
             !.name = <<"m","i","n","-","w","i","d","t","h">>,
             !.valueNode = DimensionNode(<<"1">>, <<"p", "x">>)]>>)>>)

StyleSheetOf(children) == Parent("StyleSheet", children)

RichSheets ==
  {StyleSheetOf(<<RuleNode(P_a, BlockOf(ds))>>) : ds \in SeqsUpTo(DeclNodePool, MaxDecls)}
  \cup
  {StyleSheetOf(<<AtruleNode(str_at_font_face, NoNode, BlockOf(ds))>>) :
     ds \in SeqsUpTo(DeclNodePool, MaxDecls - 1)}

WideNodePool ==
  {RuleNode(p, BlockOf(<<D_color_red>>)) : p \in PreludePool}
  \cup
  {RuleNode(P_a, BlockOf(<<D_display_none>>)),
   AtruleNode(str_media, M_min_width, BlockOf(<<RuleNode(P_a, BlockOf(<<D_margin>>))>>)),
   AtruleNode(str_media, M_min_width,
              BlockOf(<<RuleNode(P_a_hover, BlockOf(<<D_color_red>>))>>)),
   AtruleNode(str_at_font_face, NoNode, BlockOf(<<D_color_red>>)),
   AtruleNode(str_supports, Valued("Raw", str_display),
              BlockOf(<<RuleNode(P_hero, BlockOf(<<D_color_red>>))>>))}

WideSheets == {StyleSheetOf(ns) : ns \in SeqsUpTo(WideNodePool, MaxNodes)}

Options ==
  [includeShadows : BOOLEAN, includeAnimations : BOOLEAN,
   includeTransitions : BOOLEAN, includeHoverStates : BOOLEAN]

\* a text with a visible character; the tree css-tree builds from it is ast
SomeCSS == <<"a","{","}">>

InitParse ==
  /\ pc = "css"
  /\ options \in Options
  /\ ast \in RichSheets \cup WideSheets
  /\ aboveFoldSelectors = {}
  /\ input = <<>>
  /\ rules = <<>>
  /\ calls = 0
  /\ css = SomeCSS
  /\ fault = FALSE
  /\ NoCombine /\ NoExtraction /\ NoRequests
  /\ NoLater

\* this.cssParser.parseCSS(allCSS), on the tree css-tree built from allCSS
CallParseCSS ==
  /\ pc = "css"
  /\ LET c == parseCSSText(css, ast, fault, options)
     IN  /\ rules' = c.value
         /\ pc' = IF c.kind = "throw" THEN "raised" ELSE "parsed"
  /\ UNCHANGED <<options, ast, aboveFoldSelectors, input, calls>>
  /\ UNCHANGED <<textVars, combineVars, asyncVars, limiterVars>>
  /\ UNCHANGED laterVars

NextParse == CallParseCSS

SpecParse == InitParse /\ [][NextParse]_vars

(***************************************************************************)
(* Claims about the parser adapter (SpecParse).                            *)
(***************************************************************************)
\* the style rules and @font-face blocks of the sheet in source order: the
\* top-level ones and the ones directly inside an @media block
BlockNodes ==
  LET inner(n) == IF n.type = "Atrule" /\ n.name = str_media
                  THEN n.block.children ELSE <<n>>
      carries(n) == n.type = "Rule" \/ (n.type = "Atrule" /\ n.name = str_at_font_face)
  IN SelectSeq(Concat([i \in 1..Len(ast.children) |-> inner(ast.children[i])]), carries)

SelectorText(n) ==
  IF n.type = "Rule" THEN generateSelector(n.prelude) ELSE str_font_face

\* the excluded substrings other than :hover
FixedExcluded ==
  {<<":","f","o","c","u","s">>,
   <<":","a","c","t","i","v","e">>,
   <<":","v","i","s","i","t","e","d">>,
   <<":","l","i","n","k">>,
   <<":",":","-","w","e","b","k","i","t","-","s","c","r","o","l","l","b","a","r">>,
   <<":",":","-","m","o","z","-","s","c","r","o","l","l","b","a","r">>}

HasFixedExcluded(selector) == \E x \in FixedExcluded : Includes(selector, x)

\* the declarations of a block as written, each with its reconstructed value
WrittenDecls(n) ==
  LET isDeclaration(c) == c.type = "Declaration"
      ds == SelectSeq(n.block.children, isDeclaration)
  IN [i \in 1..Len(ds) |->
        MkDeclaration(ds[i].property, generateValue(ds[i].valueNode), ds[i].important)]

\* the admission policy as the claim states it
Admissible(d, opts) ==
  /\ d.property \in ALLOWED_PROPERTIES
  /\ Includes(d.property, str_shadow) => opts.includeShadows
  /\ (Includes(d.property, str_animation) \/ Includes(d.property, str_keyframes))
       => opts.includeAnimations
  /\ Includes(d.property, str_transition) => opts.includeTransitions
  /\ d.value \notin {str_none, str_initial, str_unset}

AdmissibleDecls(n, opts) ==
  LET ok(d) == Admissible(d, opts) IN SelectSeq(WrittenDecls(n), ok)

\* C7: a style rule whose selector contains :hover (and no other excluded
\* substring, and with an admitted declaration) is rejected with
\* includeHoverStates off and kept with includeHoverStates on.
C7_HoverFollowsFlag ==
  pc = "parsed" =>
    \A i \in 1..Len(BlockNodes) :
      LET n == BlockNodes[i]
          selector == SelectorText(n)
      IN (/\ Includes(selector, str_hover)
          /\ ~HasFixedExcluded(selector)
          /\ AdmissibleDecls(n, options) # <<>>)
         => (options.includeHoverStates
               <=> \E k \in 1..Len(rules) : rules[k].selector = selector)

\* C8: no parsed rule has a selector text containing :focus, :active,
\* :visited, :link or a vendor scrollbar pseudo-element; a selector list with
\* one such branch yields no rule at all.
C8_NoExcludedSelector ==
  pc = "parsed" =>
    /\ \A k \in 1..Len(rules) : ~HasFixedExcluded(rules[k].selector)
    /\ \A i \in 1..Len(BlockNodes) :
         HasFixedExcluded(SelectorText(BlockNodes[i]))
           => \A k \in 1..Len(rules) : rules[k].selector # SelectorText(BlockNodes[i])

C8_Witness ==
  /\ pc = "parsed"
  /\ options.includeHoverStates
  /\ ast = StyleSheetOf(<<RuleNode(P_a_a_focus, BlockOf(<<D_color_red>>))>>)
  /\ rules = <<>>

\* the blocks that yield a rule: those of a style rule the selector exclusion
\* lets through or of an @font-face, with at least one admissible declaration
Yielding(opts) ==
  LET yields(n) ==
        /\ ~(n.type = "Rule" /\ shouldExcludeSelector(SelectorText(n), opts))
        /\ AdmissibleDecls(n, opts) # <<>>
  IN SelectSeq(BlockNodes, yields)

\* C9: the declarations of a parsed rule are exactly the declarations of its
\* block that pass the admission policy, in source order.
C9_AdmissionPolicy ==
  pc = "parsed" =>
    /\ Len(rules) = Len(Yielding(options))
    /\ \A k \in 1..Len(rules) :
         /\ rules[k].selector = SelectorText(Yielding(options)[k])
         /\ rules[k].declarations = AdmissibleDecls(Yielding(options)[k], options)

C9_Witness ==
  /\ pc = "parsed"
  /\ ast = StyleSheetOf(<<RuleNode(P_a, BlockOf(<<D_margin, D_display_none, D_color_red>>))>>)
  /\ Len(rules) = 1
  /\ rules[1].declarations =
       <<MkDeclaration(str_margin, <<"0", " ">> \o str_auto, TRUE),
         MkDeclaration(str_color, str_red, FALSE)>>

RECURSIVE DeclsWithin(_, _)
\* a is a subsequence of b
DeclsWithin(a, b) ==
  IF a = <<>> THEN TRUE
  ELSE IF b = <<>> THEN FALSE
  ELSE \/ Head(a) = Head(b) /\ DeclsWithin(Tail(a), Tail(b))
       \/ DeclsWithin(a, Tail(b))

RECURSIVE RulesWithin(_, _)
\* every rule of a is present in b, in order, with all its declarations
RulesWithin(a, b) ==
  IF a = <<>> THEN TRUE
  ELSE IF b = <<>> THEN FALSE
  ELSE \/ /\ Head(a).selector = Head(b).selector
          /\ Head(a).mediaQuery = Head(b).mediaQuery
          /\ DeclsWithin(Head(a).declarations, Head(b).declarations)
          /\ RulesWithin(Tail(a), Tail(b))
       \/ RulesWithin(a, Tail(b))

FlagsWithin(o1, o2) ==
  /\ o1.includeShadows => o2.includeShadows
  /\ o1.includeAnimations => o2.includeAnimations
  /\ o1.includeTransitions => o2.includeTransitions
  /\ o1.includeHoverStates => o2.includeHoverStates

\* C10: switching flags from false to true never removes a rule or a
\* declaration from the result of parseCSS on the same input.
C10_AdmissionMonotone ==
  pc = "parsed" =>
    \A o2 \in Options :
      FlagsWithin(options, o2) => RulesWithin(rules, parseCSS(ast, o2))

C10_Witness ==
  /\ pc = "parsed"
  /\ options = DefaultOptions
  /\ ast = StyleSheetOf(<<RuleNode(P_a, BlockOf(<<D_box_shadow, D_transition, D_color_red>>))>>)
  /\ Len(rules) = 1
  /\ Len(rules[1].declarations) = 1

(***************************************************************************)
(* parseCSS on every kind of argument: no text, blank text, and text on    *)
(* which css-tree or the walk raises.                                      *)
(***************************************************************************)
BlankTexts == {<<>>, <<" ">>, <<"\n", "\t">>, <<" ", "\n", " ">>}

InitParseAny ==
  /\ pc = "css"
  /\ options \in Options
  /\ \/ /\ css \in BlankTexts \cup {Undefined}
        /\ ast = StyleSheetOf(<<>>)
        /\ fault = FALSE
     \/ /\ css = SomeCSS
        /\ ast \in {StyleSheetOf(<<n>>) : n \in WideNodePool}
        /\ fault \in BOOLEAN
  /\ aboveFoldSelectors = {}
  /\ input = <<>>
  /\ rules = <<>>
  /\ calls = 0
  /\ NoCombine /\ NoExtraction /\ NoRequests
  /\ NoLater

SpecParseAny == InitParseAny /\ [][NextParse]_vars

\* C12: parseCSS is total.  Whatever it is given (no text, empty or blank
\* text, text on which the parser or the walk raises an error) the call
\* returns a rule set and never throws, and empty or whitespace-only text
\* gives the empty rule set.
C12_ParseTotal ==
  /\ pc # "raised"
  /\ pc = "parsed" =>
       /\ \A k \in 1..Len(rules) :
            DOMAIN rules[k] = {"selector", "declarations", "mediaQuery"}
       /\ css \in BlankTexts => rules = <<>>

C12_Witness ==
  /\ pc = "parsed"
  /\ fault
  /\ css = SomeCSS
  /\ rules = <<>>

\* the at-rules walk treats specially
KnownAtrules == {str_media, str_at_font_face}

\* a block that yields a rule: an @font-face or a style rule the selector
\* exclusion lets through, with at least one admissible declaration
Yields(n, opts) ==
  /\ ~(n.type = "Rule" /\ shouldExcludeSelector(SelectorText(n), opts))
  /\ AdmissibleDecls(n, opts) # <<>>

\* C13: traversal continues into the children of a node that is not a style
\* rule, @media or @font-face, such as @supports with a block: every style
\* rule nested in it is produced, with the media query in force around it.
C13_DescendsIntoOtherNodes ==
  pc = "parsed" =>
    \A i \in 1..Len(ast.children) :
      LET n == ast.children[i]
      IN (n.type = "Atrule" /\ n.name \notin KnownAtrules /\ n.block # NoNode)
         => \A j \in 1..Len(n.block.children) :
              LET c == n.block.children[j]
              IN (c.type = "Rule" /\ Yields(c, options))
                 => \E k \in 1..Len(rules) :
                      /\ rules[k].selector = SelectorText(c)
                      /\ rules[k].mediaQuery = Undefined

(***************************************************************************)
(* Style sheets with @media blocks holding style rules, @font-face and     *)
(* nested @media blocks.                                                   *)
(***************************************************************************)
\* @media (max-width: 9em)
M_max_width ==
  Parent("MediaQueryList",
    <<Parent("MediaQuery",
        <<[Node("MediaFeature") EXCEPT
             !.name = <<"m","a","x","-","w","i","d","t","h">>,
             !.valueNode = DimensionNode(<<"9">>, <<"e", "m">>)]>>)>>)

str_max_width == <<"(","m","a","x","-","w","i","d","t","h",":"," ","9","e","m",")">>

FontFaceNode == AtruleNode(str_at_font_face, NoNode, BlockOf(<<D_color_red>>))

InMediaPool ==
  {RuleNode(P_a, BlockOf(<<D_color_red>>)),
   FontFaceNode,
   AtruleNode(str_media, M_max_width, BlockOf(<<RuleNode(P_hero, BlockOf(<<D_margin>>))>>)),
   AtruleNode(str_media, M_max_width,
              BlockOf(<<RuleNode(P_hero, BlockOf(<<D_margin>>)), FontFaceNode>>))}

MediaSheets ==
  {StyleSheetOf(<<RuleNode(P_hero, BlockOf(<<D_color_red>>)),
                  AtruleNode(str_media, M_min_width, BlockOf(ns))>>) :
     ns \in SeqsUpTo(InMediaPool, MaxNodes)}

InitParseMedia ==
  /\ pc = "css"
  /\ options \in Options
  /\ ast \in MediaSheets
  /\ aboveFoldSelectors = {}
  /\ input = <<>>
  /\ rules = <<>>
  /\ calls = 0
  /\ css = SomeCSS
  /\ fault = FALSE
  /\ NoCombine /\ NoExtraction /\ NoRequests
  /\ NoLater

SpecParseMedia == InitParseMedia /\ [][NextParse]_vars

RECURSIVE MediaInForce(_, _)
\* The style rules and @font-face blocks below node in document order, each
\* with the media query the claim gives it: none for @font-face and for a
\* rule outside every @media, else that of the innermost enclosing @media.
\* enclosing lists the media strings of the enclosing blocks, outermost first.
MediaInForce(node, enclosing) ==
  IF node.type = "Rule"
  THEN <<[node |-> node,
          media |-> IF enclosing = <<>> THEN Undefined ELSE enclosing[Len(enclosing)]]>>
  ELSE IF node.type = "Atrule" /\ node.name = str_at_font_face
  THEN <<[node |-> node, media |-> Undefined]>>
  ELSE IF node.type = "Atrule" /\ node.name = str_media
  THEN Concat([i \in 1..Len(node.block.children) |->
                 MediaInForce(node.block.children[i],
                              Append(enclosing, generateMediaQuery(node.prelude)))])
  ELSE IF node.type = "Atrule" THEN <<>>
  ELSE Concat([i \in 1..Len(node.children) |-> MediaInForce(node.children[i], enclosing)])

\* C14: a top-level style rule carries no media query; a style rule directly
\* inside one @media carries that block's media string; a style rule inside
\* nested @media blocks carries only the innermost block's string; an
\* @font-face rule carries none, even inside @media.
C14_MediaPropagation ==
  pc = "parsed" =>
    LET yields(e) == Yields(e.node, options)
        expected == SelectSeq(MediaInForce(ast, <<>>), yields)
    IN  /\ Len(rules) = Len(expected)
        /\ \A k \in 1..Len(rules) :
             /\ rules[k].selector = SelectorText(expected[k].node)
             /\ rules[k].mediaQuery = expected[k].media

C14_Witness ==
  /\ pc = "parsed"
  /\ \E k \in 1..Len(rules) :
       rules[k].selector = <<".">> \o str_hero /\ rules[k].mediaQuery = Undefined
  /\ \E k \in 1..Len(rules) :
       rules[k].selector = <<".">> \o str_hero /\ rules[k].mediaQuery = str_max_width
  /\ \E k \in 1..Len(rules) :
       rules[k].selector = str_a /\ rules[k].mediaQuery = str_min_width
  /\ \E k \in 1..Len(rules) :
       rules[k].selector = str_font_face /\ rules[k].mediaQuery = Undefined

(***************************************************************************)
(* generateCSS and combineMobileDesktopCSS.                                *)
(***************************************************************************)
str_at_media_sp == <<"@","m","e","d","i","a"," ">>

str_open == <<" ","{","\n">>

str_close == <<"}","\n">>

str_indent == <<" "," ">>

str_colon_sp == <<":"," ">>

str_important == <<" ","!","i","m","p","o","r","t","a","n","t">>

str_semi_nl == <<";","\n">>

\* a generator that wraps a rule in @media whenever mediaQuery is defined
ruleCSSWrapsDefined(rule) ==
  LET line(declaration) ==
        str_indent \o declaration.property \o str_colon_sp \o declaration.value
          \o (IF declaration.important THEN str_important ELSE <<>>) \o str_semi_nl
  IN  (IF rule.mediaQuery # Undefined
       THEN str_at_media_sp \o rule.mediaQuery \o str_open ELSE <<>>)
      \o rule.selector \o str_open
      \o Concat([k \in 1..Len(rule.declarations) |-> line(rule.declarations[k])])
      \o str_close
      \o (IF rule.mediaQuery # Undefined THEN str_close ELSE <<>>)

\* generateCSS: the text of one rule
ruleCSS(rule) ==
  LET line(declaration) ==
        str_indent \o declaration.property \o str_colon_sp \o declaration.value
          \o (IF declaration.important THEN str_important ELSE <<>>) \o str_semi_nl
  IN  (IF ~Falsy(rule.mediaQuery)
       THEN str_at_media_sp \o rule.mediaQuery \o str_open ELSE <<>>)
      \o rule.selector \o str_open
      \o Concat([k \in 1..Len(rule.declarations) |-> line(rule.declarations[k])])
      \o str_close
      \o (IF ~Falsy(rule.mediaQuery) THEN str_close ELSE <<>>)

generateCSS(rs) == Join([k \in 1..Len(rs) |-> ruleCSS(rs[k])], <<"\n">>)

str_desktop_media == <<"(","m","i","n","-","w","i","d","t","h",":"," ","7","6","8","p","x",")">>

\* the rules combinedRules.some / combinedRules.find accept for desktopRule
mobileCounterpartsAnyMedia(combinedRules, desktopRule) ==
  LET matches(r) == r.selector = desktopRule.selector
  IN  SelectSeq(combinedRules, matches)

mobileCounterparts(combinedRules, desktopRule) ==
  LET matches(r) == r.selector = desktopRule.selector /\ Falsy(r.mediaQuery)
  IN  SelectSeq(combinedRules, matches)

\* a filter that keeps a desktop declaration only when its property is new
desktopOnlyByProperty(desktopRule, mobileRule) ==
  LET differs(decl) ==
        LET same(md) == md.property = decl.property
        IN  SelectSeq(mobileRule.declarations, same) = <<>>
  IN  SelectSeq(desktopRule.declarations, differs)

\* desktopRule.declarations.filter(...): mobileDecl is the first declaration
\* of mobileRule with the property
desktopOnlyDeclarations(desktopRule, mobileRule) ==
  LET differs(decl) ==
        LET same(md) == md.property = decl.property
            mobileDecl == SelectSeq(mobileRule.declarations, same)
        IN  mobileDecl = <<>> \/ mobileDecl[1].value # decl.value
  IN  SelectSeq(desktopRule.declarations, differs)

\* a loop body that appends the desktop rule even with no declaration left
combineStepKeepsEmpty(combinedRules, desktopRule) ==
  LET found == mobileCounterparts(combinedRules, desktopRule)
  IN  IF found # <<>>
      THEN Append(combinedRules,
                  [desktopRule EXCEPT
                     !.declarations = desktopOnlyDeclarations(desktopRule, found[1]),
                     !.mediaQuery = str_desktop_media])
      ELSE Append(combinedRules, [desktopRule EXCEPT !.mediaQuery = str_desktop_media])

\* a loop body that keeps the media query a desktop rule already has
combineStepKeepsMedia(combinedRules, desktopRule) ==
  LET found == mobileCounterparts(combinedRules, desktopRule)
      media == IF Falsy(desktopRule.mediaQuery)
               THEN str_desktop_media ELSE desktopRule.mediaQuery
  IN  IF found # <<>>
      THEN LET decls == desktopOnlyDeclarations(desktopRule, found[1])
           IN  IF Len(decls) > 0
               THEN Append(combinedRules,
                           [desktopRule EXCEPT !.declarations = decls,
                                               !.mediaQuery = media])
               ELSE combinedRules
      ELSE Append(combinedRules, [desktopRule EXCEPT !.mediaQuery = media])

\* the body of the loop over desktopRules, on the rules combined so far
combineStep(combinedRules, desktopRule) ==
  LET found == mobileCounterparts(combinedRules, desktopRule)
      ruleExists == found # <<>>
  IN  IF ruleExists
      THEN LET mobileRule == found[1]
               decls == desktopOnlyDeclarations(desktopRule, mobileRule)
           IN  IF Len(decls) > 0
               THEN Append(combinedRules,
                           [desktopRule EXCEPT !.declarations = decls,
                                               !.mediaQuery = str_desktop_media])
               ELSE combinedRules
      ELSE Append(combinedRules, [desktopRule EXCEPT !.mediaQuery = str_desktop_media])

RECURSIVE combineLoopFrom(_, _)
combineLoopFrom(combinedRules, remaining) ==
  IF remaining = <<>> THEN combinedRules
  ELSE combineLoopFrom(combineStep(combinedRules, Head(remaining)), Tail(remaining))

\* combinedRules = [...mobileRules] and the loop over desktopRules
combineLoop(mobileRules, desktopRuleList) == combineLoopFrom(mobileRules, desktopRuleList)

\* combineMobileDesktopCSS on the trees css-tree builds from the two texts
combineMobileDesktopCSS(mobileTree, desktopTree, opts) ==
  generateCSS(combineLoop(parseCSS(mobileTree, opts), parseCSS(desktopTree, opts)))

(***************************************************************************)
(* The stages of an extraction on the rules, and the combination of a      *)
(* mobile and a desktop result.  The extractor's parser has the default    *)
(* options; ast is the tree of the page's CSS or of the mobile result,     *)
(* desktopAst the tree of the desktop result.                              *)
(***************************************************************************)
D_color_blue == DeclarationNode(str_color, IdentValue(str_blue), FALSE)

PipeNodePool ==
  {RuleNode(P_hero, BlockOf(<<D_color_red>>)),
   RuleNode(P_hero, BlockOf(<<D_color_blue>>)),
   RuleNode(P_hero, BlockOf(<<D_color_red, D_margin>>)),
   RuleNode(P_a, BlockOf(<<D_color_blue>>)),
   RuleNode(P_a, BlockOf(<<D_display_none>>)),
   AtruleNode(str_media, M_min_width, BlockOf(<<RuleNode(P_hero, BlockOf(<<D_color_blue>>))>>))}

PipeSheets == {StyleSheetOf(ns) : ns \in SeqsUpTo(PipeNodePool, MaxNodes)}

DesktopNodePool ==
  {RuleNode(P_hero, BlockOf(<<D_color_red>>)),
   RuleNode(P_hero, BlockOf(<<D_color_blue>>)),
   RuleNode(P_hero, BlockOf(<<D_color_red, D_margin>>)),
   AtruleNode(str_media, M_min_width, BlockOf(<<RuleNode(P_hero, BlockOf(<<D_color_blue>>))>>))}

DesktopSheets == {StyleSheetOf(ns) : ns \in SeqsUpTo(DesktopNodePool, MaxNodes)}

InitPipeline ==
  /\ pc = "css"
  /\ options = DefaultOptions
  /\ ast \in PipeSheets
  /\ desktopAst \in DesktopSheets
  /\ aboveFoldSelectors = {str_dot_hero}
  /\ input = <<>>
  /\ rules = <<>>
  /\ calls = 0
  /\ css = SomeCSS
  /\ fault = FALSE
  /\ desktopParsed = <<>>
  /\ combined = <<>>
  /\ NoExtraction /\ NoRequests
  /\ NoLater

\* this.combineMobileDesktopCSS(mobileResult.criticalCSS, desktopResult.criticalCSS)
CallCombineMobileDesktopCSS ==
  /\ pc = "css"
  /\ LET mobileRules == parseCSSText(css, ast, fault, options).value
         desktopRules == parseCSSText(css, desktopAst, fault, options).value
         combinedRules == combineLoop(mobileRules, desktopRules)
     IN  /\ input' = mobileRules
         /\ desktopParsed' = desktopRules
         /\ rules' = combinedRules
         /\ combined' = generateCSS(combinedRules)
  /\ pc' = "combined"
  /\ UNCHANGED <<options, ast, aboveFoldSelectors, calls, desktopAst>>
  /\ UNCHANGED <<textVars, asyncVars, limiterVars>>
  /\ UNCHANGED laterVars

NextPipeline ==
  \/ CallParseCSS
  \/ CallFilterCSSRules
  \/ CallDeduplicateRules
  \/ CallCombineMobileDesktopCSS

SpecPipeline == InitPipeline /\ [][NextPipeline]_vars

WellFormed(rs) ==
  \A k \in 1..Len(rs) : rs[k].selector # <<>> /\ Len(rs[k].declarations) >= 1

\* C11: every rule of every rule set produced by parseCSS, filterCSSRules,
\* deduplicateRules and combineMobileDesktopCSS (before serialization) has a
\* non-empty selector and at least one declaration.
C11_RuleInvariant ==
  pc \in {"parsed", "filtered", "deduped", "combined"} =>
    /\ WellFormed(rules)
    /\ WellFormed(input)
    /\ WellFormed(desktopParsed)

\* the desktop rule equals the mobile rule, and a block of the page holds
\* no admissible declaration
C11_Witness ==
  /\ pc = "combined"
  /\ ast = StyleSheetOf(<<RuleNode(P_hero, BlockOf(<<D_color_red>>)),
                          RuleNode(P_a, BlockOf(<<D_display_none>>))>>)
  /\ desktopAst = StyleSheetOf(<<RuleNode(P_hero, BlockOf(<<D_color_red>>))>>)
  /\ Len(rules) = 1

\* the rules the combination appended after the mobile rules
Appended == SubSeq(rules, Len(input) + 1, Len(rules))

\* the mobile rules with this selector and no media query
Unconditional(selector) ==
  LET matches(r) == r.selector = selector /\ r.mediaQuery \in {Undefined, <<>>}
  IN  SelectSeq(input, matches)

HasCounterpart(r) == Unconditional(r.selector) # <<>>

LacksCounterpart(r) == Unconditional(r.selector) = <<>>

RECURSIVE SelectorsWithin(_, _)
\* the selectors of a are those of a subsequence of b
SelectorsWithin(a, b) ==
  IF a = <<>> THEN TRUE
  ELSE IF b = <<>> THEN FALSE
  ELSE \/ Head(a).selector = Head(b).selector /\ SelectorsWithin(Tail(a), Tail(b))
       \/ SelectorsWithin(a, Tail(b))

DiffersFrom(desktopRule, mobileRule) ==
  LET pairs == {<<mobileRule.declarations[k].property, mobileRule.declarations[k].value>> :
                  k \in 1..Len(mobileRule.declarations)}
      new(decl) == <<decl.property, decl.value>> \notin pairs
  IN  SelectSeq(desktopRule.declarations, new)

\* C16: for a desktop rule whose selector is that of a mobile rule with no
\* media query, the combination appends a rule with exactly the desktop
\* declarations whose (property, value) pair differs from, or whose
\* property is absent in, that mobile rule, in desktop order and with media
\* query (min-width: 768px), and appends nothing when there is none.
C16_DesktopDifference ==
  pc = "combined" =>
    LET with == SelectSeq(desktopParsed, HasCounterpart)
        expected(r) ==
          LET decls == DiffersFrom(r, Unconditional(r.selector)[1])
          IN  IF decls = <<>> THEN <<>>
              ELSE <<MkRule(r.selector, decls, str_desktop_media)>>
    IN  SelectSeq(Appended, HasCounterpart)
          = Concat([j \in 1..Len(with) |-> expected(with[j])])

\* mobile .hero {color: red}, desktop .hero {color: blue}
C16_Witness ==
  /\ pc = "combined"
  /\ input = <<MkRule(<<".">> \o str_hero, <<MkDeclaration(str_color, str_red, FALSE)>>,
                      Undefined)>>
  /\ desktopParsed = <<MkRule(<<".">> \o str_hero,
                              <<MkDeclaration(str_color, str_blue, FALSE)>>, Undefined)>>
  /\ rules = <<MkRule(<<".">> \o str_hero, <<MkDeclaration(str_color, str_red, FALSE)>>,
                      Undefined),
               MkRule(<<".">> \o str_hero, <<MkDeclaration(str_color, str_blue, FALSE)>>,
                      str_desktop_media)>>

\* C17: a desktop rule with no mobile counterpart without media query is
\* appended with all its declarations unchanged and its media query set to
\* (min-width: 768px), whatever media query it had.
C17_DesktopOnlyRule ==
  pc = "combined" =>
    LET without == SelectSeq(desktopParsed, LacksCounterpart)
    IN  SelectSeq(Appended, LacksCounterpart)
          = [j \in 1..Len(without) |->
               MkRule(without[j].selector, without[j].declarations, str_desktop_media)]

\* a desktop rule under @media (min-width: 1px), with no counterpart
C17_Witness ==
  /\ pc = "combined"
  /\ Len(desktopParsed) = 1
  /\ desktopParsed[1].mediaQuery = str_min_width
  /\ LacksCounterpart(desktopParsed[1])
  /\ Appended = <<MkRule(desktopParsed[1].selector, desktopParsed[1].declarations,
                         str_desktop_media)>>

(***************************************************************************)
(* extractForBothViewports: two extractCriticalCSS calls joined by         *)
(* Promise.all.  Each call advances from one await to the next; the two    *)
(* interleave at the awaits.                                               *)
(***************************************************************************)
\* the awaits inside the try block of extractCriticalCSS, in order
AwaitSteps ==
  <<"createContext", "loadPage", "getAboveFoldElements", "getAllCSS",
    "optimizeFontLoading">>

\* the awaits of the finally block, in order
FinallySteps == <<"lcpObserver.cleanup", "renderer.cleanup">>

IndexOf(seq, x) == CHOOSE k \in 1..Len(seq) : seq[k] = x

InSeq(seq, x) == \E k \in 1..Len(seq) : seq[k] = x

\* Promise.race-like joining: one fulfilled promise is enough
anyFulfilled(t) == \E v \in Viewports : t[v].pc = "fulfilled"

\* Promise.all fulfils when every promise has fulfilled
allFulfilled(t) == \A v \in Viewports : t[v].pc = "fulfilled"

\* Promise.all rejects when one promise has rejected
someRejected(t) == \E v \in Viewports : t[v].pc = "rejected"

InitBoth ==
  /\ pc = "css"
  /\ options = DefaultOptions
  /\ ast \in {StyleSheetOf(<<n>>) : n \in DesktopNodePool}
  /\ desktopAst \in {StyleSheetOf(<<n>>) : n \in DesktopNodePool}
  /\ aboveFoldSelectors = {}
  /\ input = <<>>
  /\ rules = <<>>
  /\ calls = 0
  /\ css = SomeCSS
  /\ fault = FALSE
  /\ desktopParsed = <<>>
  /\ combined = <<>>
  /\ NoExtraction /\ NoRequests
  /\ NoLater

\* extractForBothViewports is called: both extractCriticalCSS calls start
\* and run to their first await
CallExtractForBothViewports ==
  /\ main = "idle"
  /\ main' = "awaiting"
  /\ task' = [v \in Viewports |-> [pc |-> AwaitSteps[1], error |-> FALSE]]
  /\ UNCHANGED <<parserVars, textVars, combineVars, limiterVars, combineCalls>>
  /\ UNCHANGED laterVars

\* the awaited call of an extraction returns: on to the next await, and
\* after the last one to the return statement and the finally block
AwaitReturns(v) ==
  /\ InSeq(AwaitSteps, task[v].pc)
  /\ LET k == IndexOf(AwaitSteps, task[v].pc)
     IN  task' = [task EXCEPT ![v].pc = IF k < Len(AwaitSteps) THEN AwaitSteps[k + 1]
                                       ELSE FinallySteps[1]]
  /\ UNCHANGED <<parserVars, textVars, combineVars, limiterVars, main, combineCalls>>
  /\ UNCHANGED laterVars

\* the awaited call throws: catch rethrows a CriticalExtractionError and the
\* finally block runs, which awaits the clean-ups only when renderingContext
\* was assigned (createContext returned)
AwaitThrows(v) ==
  /\ InSeq(AwaitSteps, task[v].pc)
  /\ task' = [task EXCEPT ![v] =
                IF task[v].pc = "createContext"
                THEN [pc |-> "rejected", error |-> TRUE]
                ELSE [pc |-> FinallySteps[1], error |-> TRUE]]
  /\ UNCHANGED <<parserVars, textVars, combineVars, limiterVars, main, combineCalls>>
  /\ UNCHANGED laterVars

\* an await of the finally block ends (an error it raises is only logged);
\* after the last one the promise settles
FinallyStep(v) ==
  /\ InSeq(FinallySteps, task[v].pc)
  /\ LET k == IndexOf(FinallySteps, task[v].pc)
     IN  task' = [task EXCEPT ![v].pc =
                    IF k < Len(FinallySteps) THEN FinallySteps[k + 1]
                    ELSE IF task[v].error THEN "rejected" ELSE "fulfilled"]
  /\ UNCHANGED <<parserVars, textVars, combineVars, limiterVars, main, combineCalls>>
  /\ UNCHANGED laterVars

\* await Promise.all([...]) resumes with both results: combineMobileDesktopCSS
\* is called and the call returns
JoinResolve ==
  /\ main = "awaiting"
  /\ allFulfilled(task)
  /\ LET mobileRules == parseCSSText(css, ast, fault, options).value
         desktopRules == parseCSSText(css, desktopAst, fault, options).value
         combinedRules == combineLoop(mobileRules, desktopRules)
     IN  /\ input' = mobileRules
         /\ desktopParsed' = desktopRules
         /\ rules' = combinedRules
         /\ combined' = generateCSS(combinedRules)
  /\ pc' = "combined"
  /\ combineCalls' = combineCalls + 1
  /\ main' = "resolved"
  /\ UNCHANGED <<options, ast, aboveFoldSelectors, calls, desktopAst, task>>
  /\ UNCHANGED <<textVars, limiterVars>>
  /\ UNCHANGED laterVars

\* await Promise.all([...]) throws the first rejection: the call rejects
JoinReject ==
  /\ main = "awaiting"
  /\ someRejected(task)
  /\ main' = "rejected"
  /\ UNCHANGED <<parserVars, textVars, combineVars, limiterVars, task, combineCalls>>
  /\ UNCHANGED laterVars

NextBoth ==
  \/ CallExtractForBothViewports
  \/ \E v \in Viewports : AwaitReturns(v)
  \/ \E v \in Viewports : AwaitThrows(v)
  \/ \E v \in Viewports : FinallyStep(v)
  \/ JoinResolve
  \/ JoinReject

\* The reaction of a rejected promise is run by the event loop.
SpecBoth ==
  /\ InitBoth
  /\ [][NextBoth]_vars
  /\ WF_asyncVars(JoinReject)

\* C18: under every interleaving of the mobile and the desktop extraction,
\* combineMobileDesktopCSS is invoked only after both have completed
\* successfully; if either fails it is never invoked and the call rejects.
C18_JoinBeforeCombine ==
  /\ [](combineCalls > 0 => allFulfilled(task))
  /\ []((\E v \in Viewports : task[v].error) => (combineCalls = 0 /\ main # "resolved"))
  /\ [](main = "resolved" => combineCalls = 1)
  /\ (someRejected(task) ~> main = "rejected")

\* the mobile extraction has completed, the desktop one has failed
C18_Witness ==
  /\ main = "rejected"
  /\ task["mobile"].pc = "fulfilled"
  /\ task["desktop"].pc = "rejected"
  /\ combineCalls = 0

(***************************************************************************)
(* The rate limiter of /api/extract (src/middleware/rateLimiter.js).       *)
(* now is the clock Date.now() reads, in milliseconds.  admittedAt lists,  *)
(* for each client, the times of its requests passed on with next() during *)
(* the last WINDOW_MS milliseconds; response is the last outcome.          *)
(***************************************************************************)
RATE_LIMIT == 20

WINDOW_MS == 60 * 1000

\* the size of requestCounts above which old entries are swept
SWEEP_SIZE == 1000

\* a client that sends without restraint and a client that sends at most
\* MaxOtherRequests requests in a window
BusyClient == "10.0.0.1"

QuietClient == "10.0.0.2"

IPs == {BusyClient, QuietClient}

\* the clock advances by a millisecond or by a whole window
TimeSteps == {1, WINDOW_MS}

\* the number of times the clock has advanced
Ticks(t) == (t \div WINDOW_MS) + (t % WINDOW_MS)

\* a clean-up that deletes every entry whose window began before t
sweepBegunEarlier(counts, t) ==
  LET keep(e) == ~(e.value.resetTime < t + WINDOW_MS)
  IN  IF Len(counts) > SWEEP_SIZE THEN SelectSeq(counts, keep) ELSE counts

\* the clean-up of old entries at the head of the handler
sweep(counts, t) ==
  LET keep(e) == ~(e.value.resetTime < t - WINDOW_MS)
  IN  IF Len(counts) > SWEEP_SIZE THEN SelectSeq(counts, keep) ELSE counts

InitLimiter ==
  /\ pc = "listening"
  /\ options = DefaultOptions
  /\ ast = <<>>
  /\ aboveFoldSelectors = {}
  /\ input = <<>>
  /\ rules = <<>>
  /\ calls = 0
  /\ NoText /\ NoCombine /\ NoExtraction
  /\ requestCounts = <<>>
  /\ now = 0
  /\ admittedAt = [ip \in IPs |-> <<>>]
  /\ response = <<>>
  /\ NoLater

\* next(): the request is passed on
Admit(clientIP) ==
  /\ admittedAt' = [admittedAt EXCEPT ![clientIP] = Append(@, now)]
  /\ response' = [ip |-> clientIP, status |-> 200]

\* rateLimiter(req, res, next) for a request of clientIP
RateLimiter(clientIP) ==
  /\ LET swept == sweep(requestCounts, now)
     IN  IF ~MapHas(swept, clientIP)
         THEN /\ requestCounts' =
                   MapSet(swept, clientIP, [count |-> 1, resetTime |-> now + WINDOW_MS])
              /\ Admit(clientIP)
         ELSE LET record == MapGet(swept, clientIP)
              IN  IF now > record.resetTime
                  THEN /\ requestCounts' =
                            MapSet(swept, clientIP,
                                   [count |-> 1, resetTime |-> now + WINDOW_MS])
                       /\ Admit(clientIP)
                  ELSE IF record.count >= RATE_LIMIT
                  THEN /\ requestCounts' = swept
                       /\ response' = [ip |-> clientIP, status |-> 429]
                       /\ UNCHANGED admittedAt
                  ELSE /\ requestCounts' =
                            MapSet(swept, clientIP, [record EXCEPT !.count = @ + 1])
                       /\ Admit(clientIP)
  /\ UNCHANGED <<parserVars, textVars, combineVars, asyncVars, now>>
  /\ UNCHANGED laterVars

\* time passes; admissions older than WINDOW_MS leave admittedAt
Tick ==
  /\ \E d \in TimeSteps :
       /\ Ticks(now) < MaxTicks
       /\ now' = now + d
       /\ admittedAt' =
            [ip \in IPs |->
               LET recent(t) == t > now + d - WINDOW_MS
               IN  SelectSeq(admittedAt[ip], recent)]
  /\ UNCHANGED <<parserVars, textVars, combineVars, asyncVars, requestCounts, response>>
  /\ UNCHANGED laterVars

\* the client sends a request
Sends(clientIP) ==
  IF clientIP = BusyClient \/ ~MapHas(requestCounts, clientIP) THEN TRUE
  ELSE LET record == MapGet(requestCounts, clientIP)
       IN  now > record.resetTime \/ record.count < MaxOtherRequests

NextLimiter ==
  \/ \E clientIP \in IPs : Sends(clientIP) /\ RateLimiter(clientIP)
  \/ Tick

SpecLimiter == InitLimiter /\ [][NextLimiter]_vars

\* C19: for each client IP at most 20 requests are admitted within any
\* one-minute period (here the minute ending now), a request answered 429
\* is one of a client that has used up its own limit, and the requests of
\* one client never count against another.
C19_AtMostLimitPerMinute ==
  /\ \A ip \in IPs : Len(admittedAt[ip]) <= RATE_LIMIT
  /\ (response # <<>> /\ response.status = 429) =>
       /\ MapHas(requestCounts, response.ip)
       /\ MapGet(requestCounts, response.ip).count >= RATE_LIMIT

(***************************************************************************)
(* generateCSS on its own: a RuleSet is rendered to text.                  *)
(***************************************************************************)
InitGenerate ==
  /\ pc = "rules"
  /\ options = DefaultOptions
  /\ ast = <<>>
  /\ aboveFoldSelectors = {}
  /\ input = <<>>
  /\ rules \in RichRuleSets \cup WideRuleSets
  /\ calls = 0
  /\ NoText /\ NoCombine /\ NoExtraction /\ NoRequests
  /\ NoLater

CallGenerateCSS ==
  /\ pc = "rules"
  /\ css' = generateCSS(rules)
  /\ pc' = "generated"
  /\ UNCHANGED <<options, ast, aboveFoldSelectors, input, rules, calls, fault>>
  /\ UNCHANGED <<combineVars, asyncVars, limiterVars, laterVars>>

NextGenerate == CallGenerateCSS

SpecGenerate == InitGenerate /\ [][NextGenerate]_vars

\* the rule is to be wrapped in an @media block
Wrapped(rule) == rule.mediaQuery # Undefined /\ rule.mediaQuery # <<>>

\* the lines of the block of one rule
BlockLines(rule) ==
  LET declLine(d) ==
        <<" ", " ">> \o d.property \o <<":", " ">> \o d.value
          \o (IF d.important THEN <<" ","!","i","m","p","o","r","t","a","n","t">>
              ELSE <<>>)
          \o <<";">>
  IN  (IF Wrapped(rule)
       THEN << <<"@","m","e","d","i","a"," ">> \o rule.mediaQuery \o <<" ","{">> >>
       ELSE <<>>)
      \o << rule.selector \o <<" ","{">> >>
      \o [k \in 1..Len(rule.declarations) |-> declLine(rule.declarations[k])]
      \o << <<"}">> >>
      \o (IF Wrapped(rule) THEN << <<"}">> >> ELSE <<>>)

\* the lines of the blocks of rs[k..], each block ended by its line break and
\* two blocks separated by an empty line
RECURSIVE LinesFrom(_, _)
LinesFrom(rs, k) ==
  IF k > Len(rs) THEN << <<>> >>
  ELSE BlockLines(rs[k])
         \o (IF k < Len(rs) THEN << <<>> >> \o LinesFrom(rs, k + 1)
             ELSE << <<>> >>)

\* C21: the generated text is, line by line, one block per rule in RuleSet
\* order with an empty line between two blocks; a block is wrapped in
\* "@media <mediaQuery> {" and a closing brace exactly when the rule's
\* mediaQuery is present and non-empty, and holds one "  property: value;"
\* line per declaration in order, with " !important" exactly for the
\* important declarations
C21_RenderFormat ==
  pc = "generated" => Split(css, "\n") = LinesFrom(rules, 1)

C21_Witness ==
  /\ pc = "generated"
  /\ Len(rules) = 3
  /\ Wrapped(rules[1])
  /\ rules[2].mediaQuery = <<>>
  /\ rules[3].mediaQuery = Undefined
  /\ C21_RenderFormat

(***************************************************************************)
(* minifyCSS, and repeated runs of the core pipeline on one parser.        *)
(***************************************************************************)
MaxRuns == 3

\* the first position from i on that holds no white space
RECURSIVE SkipSpace(_, _)
SkipSpace(s, i) ==
  IF i > Len(s) \/ s[i] \notin WhiteSpaceChars THEN i ELSE SkipSpace(s, i + 1)

\* String.prototype.replace with a global pattern: MatchEnd(i) is the position
\* after the match that starts at i, or 0 when the pattern does not match there
ReplaceAll(s, MatchEnd(_), replacement) ==
  LET matching == {j \in 1..Len(s) : MatchEnd(j) > 0}
      starts(i) == {j \in matching : j >= i}
      RECURSIVE From(_)
      From(i) ==
        IF starts(i) = {} THEN SubSeq(s, i, Len(s))
        ELSE LET j == MinOf(starts(i))
             IN  SubSeq(s, i, j - 1) \o replacement \o From(MatchEnd(j))
  IN  From(1)

\* .replace(/\/\*[\s\S]*?\*\//g, '')
removeComments(s) ==
  LET closes(i) == {j \in (i + 2)..(Len(s) - 1) : s[j] = "*" /\ s[j + 1] = "/"}
      MatchEnd(i) ==
        IF i < Len(s) /\ s[i] = "/" /\ s[i + 1] = "*" /\ closes(i) # {}
        THEN MinOf(closes(i)) + 2 ELSE 0
  IN  ReplaceAll(s, MatchEnd, <<>>)

\* .replace(/\s+/g, ' ')
collapseWhitespace(s) ==
  LET MatchEnd(i) == IF s[i] \in WhiteSpaceChars THEN SkipSpace(s, i) ELSE 0
  IN  ReplaceAll(s, MatchEnd, <<" ">>)

\* .replace(/;\s*}/g, '}')
dropLastSemicolon(s) ==
  LET MatchEnd(i) ==
        IF s[i] = ";" /\ SkipSpace(s, i + 1) <= Len(s) /\ s[SkipSpace(s, i + 1)] = "}"
        THEN SkipSpace(s, i + 1) + 1 ELSE 0
  IN  ReplaceAll(s, MatchEnd, <<"}">>)

\* .replace(/\s*{\s*/g, '{')
collapseBraces(s) ==
  LET MatchEnd(i) ==
        IF SkipSpace(s, i) <= Len(s) /\ s[SkipSpace(s, i)] = "{"
        THEN SkipSpace(s, SkipSpace(s, i) + 1) ELSE 0
  IN  ReplaceAll(s, MatchEnd, <<"{">>)

\* .replace(/;\s*/g, ';')
collapseSemicolons(s) ==
  LET MatchEnd(i) == IF s[i] = ";" THEN SkipSpace(s, i + 1) ELSE 0
  IN  ReplaceAll(s, MatchEnd, <<";">>)

\* .replace(/:\s+/g, ':')
collapseColons(s) ==
  LET MatchEnd(i) ==
        IF s[i] = ":" /\ i < Len(s) /\ s[i + 1] \in WhiteSpaceChars
        THEN SkipSpace(s, i + 1) ELSE 0
  IN  ReplaceAll(s, MatchEnd, <<":">>)

\* a minifier that works on the first call of a parser only
minifyCSSFirstCallOnly(text) ==
  IF calls = 0 THEN Trim(collapseWhitespace(text)) ELSE text

minifyCSS(text) ==
  Trim(collapseColons(collapseSemicolons(collapseBraces(
    dropLastSemicolon(collapseWhitespace(removeComments(text)))))))

\* the core pipeline of one extraction of a viewport
criticalCSSOf(tree, signals, opts) ==
  LET cssRules == parseCSS(tree, opts)
      criticalRules == filterCSSRules(cssRules, signals)
      optimizedRules == deduplicateRules(criticalRules)
  IN  [rules |-> optimizedRules,
       criticalCSS |-> minifyCSS(generateCSS(optimizedRules))]

\* the core pipeline of extractForBothViewports
corePipeline(tree, desktopTree, signals, opts) ==
  [mobile |-> criticalCSSOf(tree, signals, opts),
   desktop |-> criticalCSSOf(desktopTree, signals, opts),
   combined |-> combineMobileDesktopCSS(tree, desktopTree, opts)]

\* another page, extracted in between by the same parser
OtherPage ==
  [tree |-> StyleSheetOf(<<RuleNode(P_a, BlockOf(<<D_display_none>>))>>),
   desktopTree |-> StyleSheetOf(<<>>),
   signals |-> {str_a}]

\* the style sheets of the pages extracted: one node, or two nodes of which
\* the second repeats the selector of the first
RunSheets ==
  {StyleSheetOf(<<n>>) : n \in PipeNodePool}
    \cup {StyleSheetOf(<<RuleNode(P_hero, BlockOf(<<D_color_red, D_margin>>)), n>>) :
            n \in PipeNodePool}

DesktopRunSheets ==
  {StyleSheetOf(<<RuleNode(P_hero, BlockOf(<<D_color_blue>>))>>),
   StyleSheetOf(<<AtruleNode(str_media, M_min_width,
                             BlockOf(<<RuleNode(P_hero, BlockOf(<<D_color_blue>>))>>))>>)}

ThisPage == [tree |-> ast, desktopTree |-> desktopAst, signals |-> aboveFoldSelectors]

InitRuns ==
  /\ pc = "ready"
  /\ options = DefaultOptions
  /\ ast \in RunSheets
  /\ desktopAst \in DesktopRunSheets
  /\ aboveFoldSelectors = {str_dot_hero}
  /\ input = <<>>
  /\ rules = <<>>
  /\ calls = 0
  /\ NoText
  /\ desktopParsed = <<>>
  /\ combined = <<>>
  /\ NoExtraction /\ NoRequests
  /\ renderer = <<>>
  /\ fetcher = <<>>
  /\ heap = <<>>
  /\ runs = <<>>

\* one run of the core pipeline on the texts and signals of a page
RunCorePipeline(page) ==
  /\ calls < MaxRuns
  /\ LET out == corePipeline(page.tree, page.desktopTree, page.signals, options)
     IN  /\ runs' = Append(runs, [page |-> page, at |-> now, out |-> out])
         /\ rules' = out.mobile.rules
         /\ css' = out.mobile.criticalCSS
         /\ combined' = out.combined
  /\ calls' = calls + 1
  /\ pc' = "ran"
  /\ UNCHANGED <<options, ast, aboveFoldSelectors, input, fault, desktopAst, desktopParsed>>
  /\ UNCHANGED <<asyncVars, limiterVars, renderer, fetcher, heap>>

\* Date.now() advances between runs
TimePasses ==
  /\ now < MaxTicks
  /\ now' = now + 1
  /\ UNCHANGED <<parserVars, textVars, combineVars, asyncVars, laterVars>>
  /\ UNCHANGED <<requestCounts, admittedAt, response>>

NextRuns ==
  \/ RunCorePipeline(ThisPage)
  \/ RunCorePipeline(OtherPage)
  \/ TimePasses

SpecRuns == InitRuns /\ [][NextRuns]_vars

ArrayCell(items) == [kind |-> "array", items |-> items]

DeclCell(d) ==
  [kind |-> "decl", property |-> d.property, value |-> d.value,
   important |-> d.important]

RuleCell(rule, declarations) ==
  [kind |-> "rule", selector |-> rule.selector, declarations |-> declarations,
   mediaQuery |-> rule.mediaQuery]

\* the values held by the objects at an address
DeclAt(cells, a) ==
  MkDeclaration(cells[a].property, cells[a].value, cells[a].important)

DeclsAt(cells, a) ==
  [k \in 1..Len(cells[a].items) |-> DeclAt(cells, cells[a].items[k])]

RuleAt(cells, a) ==
  MkRule(cells[a].selector, DeclsAt(cells, cells[a].declarations), cells[a].mediaQuery)

RulesAt(cells, a) ==
  [k \in 1..Len(cells[a].items) |-> RuleAt(cells, cells[a].items[k])]

\* the objects parseCSS builds for one rule: its declarations, their array,
\* and the rule, which is the last cell
StoreRule(cells, rule) ==
  LET n == Len(rule.declarations)
      declarations == [k \in 1..n |-> DeclCell(rule.declarations[k])]
      array == ArrayCell([k \in 1..n |-> Len(cells) + k])
  IN  cells \o declarations \o <<array, RuleCell(rule, Len(cells) + n + 1)>>

RECURSIVE StoreRulesFrom(_, _, _)
StoreRulesFrom(cells, rs, items) ==
  IF rs = <<>> THEN Append(cells, ArrayCell(items))
  ELSE LET stored == StoreRule(cells, Head(rs))
       IN  StoreRulesFrom(stored, Tail(rs), Append(items, Len(stored)))

\* the objects of a RuleSet; the array of the rules is the last cell
StoreRules(cells, rs) == StoreRulesFrom(cells, rs, <<>>)

\* rules.filter(...): a new array of the rule objects kept
heapFilterCSSRules(cells, rulesAddr, selectors) ==
  LET keep(a) == isCriticalRule(RuleAt(cells, a), selectors)
  IN  [cells |-> Append(cells, ArrayCell(SelectSeq(cells[rulesAddr].items, keep))),
       result |-> Len(cells) + 1]

RECURSIVE heapDedupDeclLoop(_, _, _)
heapDedupDeclLoop(cells, items, seen) ==
  IF items = <<>> THEN seen
  ELSE LET decl == Head(items)
           key == cells[decl].property
       IN IF ~MapHas(seen, key)
             \/ (cells[decl].important /\ ~cells[MapGet(seen, key)].important)
          THEN heapDedupDeclLoop(cells, Tail(items), MapSet(seen, key, decl))
          ELSE heapDedupDeclLoop(cells, Tail(items), seen)

\* Array.from(seen.values()): a new array of the declaration objects kept
heapDeduplicateDeclarations(cells, declarationsAddr) ==
  LET seen == heapDedupDeclLoop(cells, cells[declarationsAddr].items, <<>>)
  IN  [cells |-> Append(cells, ArrayCell(MapValues(seen))), result |-> Len(cells) + 1]

RECURSIVE heapDedupRuleLoopInPlace(_, _, _, _)
\* a loop that assigns rule.declarations and pushes the rule itself
heapDedupRuleLoopInPlace(cells, items, seen, uniqueRules) ==
  IF items = <<>> THEN cells
  ELSE LET rule == Head(items)
           key == ruleKey(cells[rule])
       IN IF key \notin seen
          THEN LET unique == heapDeduplicateDeclarations(cells, cells[rule].declarations)
                   assigned == [unique.cells EXCEPT ![rule].declarations = unique.result]
                   pushed == [assigned EXCEPT ![uniqueRules].items = Append(@, rule)]
               IN  heapDedupRuleLoopInPlace(pushed, Tail(items), seen \cup {key}, uniqueRules)
          ELSE heapDedupRuleLoopInPlace(cells, Tail(items), seen, uniqueRules)

heapDeduplicateRulesInPlace(cells, rulesAddr) ==
  LET start == Append(cells, ArrayCell(<<>>))
  IN  [cells |-> heapDedupRuleLoopInPlace(start, cells[rulesAddr].items, {}, Len(start)),
       result |-> Len(start)]

RECURSIVE heapDedupRuleLoop(_, _, _, _)
\* uniqueRules.push({...rule, declarations: uniqueDeclarations})
heapDedupRuleLoop(cells, items, seen, uniqueRules) ==
  IF items = <<>> THEN cells
  ELSE LET rule == Head(items)
           key == ruleKey(cells[rule])
       IN IF key \notin seen
          THEN LET unique == heapDeduplicateDeclarations(cells, cells[rule].declarations)
                   copied == Append(unique.cells,
                                    [cells[rule] EXCEPT !.declarations = unique.result])
                   pushed == [copied EXCEPT ![uniqueRules].items = Append(@, Len(copied))]
               IN  heapDedupRuleLoop(pushed, Tail(items), seen \cup {key}, uniqueRules)
          ELSE heapDedupRuleLoop(cells, Tail(items), seen, uniqueRules)

heapDeduplicateRules(cells, rulesAddr) ==
  LET start == Append(cells, ArrayCell(<<>>))
  IN  [cells |-> heapDedupRuleLoop(start, cells[rulesAddr].items, {}, Len(start)),
       result |-> Len(start)]

\* the body of the loop over desktopRules: some/find over combinedRules, the
\* filter of the desktop declarations, and the push of a new rule object
heapCombineStep(cells, combinedRules, desktopRule) ==
  LET matches(r) ==
        cells[r].selector = cells[desktopRule].selector /\ Falsy(cells[r].mediaQuery)
      found == SelectSeq(cells[combinedRules].items, matches)
      push(from, ruleCell) ==
        LET made == Append(from, ruleCell)
        IN  [made EXCEPT ![combinedRules].items = Append(@, Len(made))]
  IN  IF found # <<>>
      THEN LET mobileDecls == cells[cells[found[1]].declarations].items
               differs(decl) ==
                 LET same(md) == cells[md].property = cells[decl].property
                     mobileDecl == SelectSeq(mobileDecls, same)
                 IN  mobileDecl = <<>> \/ cells[mobileDecl[1]].value # cells[decl].value
               desktopOnly == SelectSeq(cells[cells[desktopRule].declarations].items, differs)
               filtered == Append(cells, ArrayCell(desktopOnly))
           IN  IF Len(desktopOnly) > 0
               THEN push(filtered, [cells[desktopRule] EXCEPT
                                      !.declarations = Len(filtered),
                                      !.mediaQuery = str_desktop_media])
               ELSE filtered
      ELSE push(cells, [cells[desktopRule] EXCEPT !.mediaQuery = str_desktop_media])

RECURSIVE heapCombineLoop(_, _, _)
heapCombineLoop(cells, combinedRules, remaining) ==
  IF remaining = <<>> THEN cells
  ELSE heapCombineLoop(heapCombineStep(cells, combinedRules, Head(remaining)),
                       combinedRules, Tail(remaining))

\* combineMobileDesktopCSS from `const combinedRules = [...mobileRules]` on
heapCombine(cells, mobileRules, desktopRuleList) ==
  LET start == Append(cells, ArrayCell(cells[mobileRules].items))
  IN  [cells |-> heapCombineLoop(start, Len(start), cells[desktopRuleList].items),
       result |-> Len(start)]

HeapRulePool ==
  {MkRule(str_a, <<MkDeclaration(str_color, str_red, FALSE),
                   MkDeclaration(str_color, str_blue, FALSE),
                   MkDeclaration(str_background, str_red, FALSE)>>, Undefined),
   MkRule(str_a, <<MkDeclaration(str_color, str_blue, FALSE)>>, Undefined),
   MkRule(str_dot_x, <<MkDeclaration(str_color, str_red, TRUE),
                       MkDeclaration(str_color, str_blue, FALSE)>>, str_c)}

HeapDesktopRules ==
  {<<MkRule(str_a, <<MkDeclaration(str_color, str_red, FALSE),
                     MkDeclaration(str_background, str_blue, FALSE)>>, Undefined)>>,
   <<MkRule(str_dot_x, <<MkDeclaration(str_color, str_red, FALSE)>>, Undefined)>>}

\* the rule sets of the mobile and of the desktop result are on the heap
InitHeap ==
  /\ pc = "rules"
  /\ options = DefaultOptions
  /\ ast = <<>>
  /\ aboveFoldSelectors = {str_a}
  /\ input = <<>>
  /\ rules = <<>>
  /\ calls = 0
  /\ NoText /\ NoCombine /\ NoExtraction /\ NoRequests
  /\ renderer = <<>>
  /\ fetcher = <<>>
  /\ runs = <<>>
  /\ \E rs \in SeqsUpTo(HeapRulePool, MaxRules) : \E ds \in HeapDesktopRules :
       LET mobile == StoreRules(<<>>, rs)
           both == StoreRules(mobile, ds)
       IN  heap = [cells |-> both, passed |-> Len(mobile), desktop |-> Len(both),
                   current |-> Len(mobile)]

HeapReturns(out, stage) ==
  /\ heap' = [heap EXCEPT !.cells = out.cells, !.current = out.result]
  /\ calls' = calls + 1
  /\ pc' = stage

HeapFilterCSSRules ==
  /\ calls < MaxCalls
  /\ pc # "combined"
  /\ HeapReturns(heapFilterCSSRules(heap.cells, heap.current, aboveFoldSelectors),
                 "filtered")
  /\ UNCHANGED <<options, ast, aboveFoldSelectors, input, rules>>
  /\ UNCHANGED <<textVars, combineVars, asyncVars, limiterVars, renderer, fetcher, runs>>

HeapDeduplicateRules ==
  /\ calls < MaxCalls
  /\ pc # "combined"
  /\ HeapReturns(heapDeduplicateRules(heap.cells, heap.current), "deduped")
  /\ UNCHANGED <<options, ast, aboveFoldSelectors, input, rules>>
  /\ UNCHANGED <<textVars, combineVars, asyncVars, limiterVars, renderer, fetcher, runs>>

HeapGenerateCSS ==
  /\ calls < MaxCalls
  /\ pc # "combined"
  /\ css' = generateCSS(RulesAt(heap.cells, heap.current))
  /\ calls' = calls + 1
  /\ pc' = "generated"
  /\ UNCHANGED <<options, ast, aboveFoldSelectors, input, rules, fault, heap>>
  /\ UNCHANGED <<combineVars, asyncVars, limiterVars, renderer, fetcher, runs>>

HeapCombineMobileDesktopCSS ==
  /\ calls < MaxCalls
  /\ pc # "combined"
  /\ LET out == heapCombine(heap.cells, heap.current, heap.desktop)
     IN  /\ HeapReturns(out, "combined")
         /\ css' = generateCSS(RulesAt(out.cells, out.result))
  /\ UNCHANGED <<options, ast, aboveFoldSelectors, input, rules, fault>>
  /\ UNCHANGED <<combineVars, asyncVars, limiterVars, renderer, fetcher, runs>>

NextHeap ==
  \/ HeapFilterCSSRules
  \/ HeapDeduplicateRules
  \/ HeapGenerateCSS
  \/ HeapCombineMobileDesktopCSS

SpecHeap == InitHeap /\ [][NextHeap]_vars

\* C23: a stage leaves every object that existed when it was called as it was
\* (the rule set passed to it, its rules, their declaration lists and the
\* declarations: same length, order and content), and the rule set a stage
\* returns is an array that did not exist before
C23_InputsUnchanged ==
  [][/\ Len(heap'.cells) >= Len(heap.cells)
     /\ SubSeq(heap'.cells, 1, Len(heap.cells)) = heap.cells
     /\ heap'.current # heap.current => heap'.current > Len(heap.cells)
     /\ pc' \in {"filtered", "deduped", "combined"} => heap'.current # heap.current]_vars

\* the objects agree with the stages computed on values
C23_Witness ==
  /\ pc = "deduped"
  /\ calls = 2
  /\ Len(heap.cells[heap.passed].items) = 3
  /\ Len(heap.cells[heap.current].items) = 1
  /\ Len(RulesAt(heap.cells, heap.passed)[1].declarations) = 3
  /\ Len(RulesAt(heap.cells, heap.current)[1].declarations) = 2
  /\ RulesAt(heap.cells, heap.current)
       = deduplicateRules(filterCSSRules(RulesAt(heap.cells, heap.passed), aboveFoldSelectors))

(***************************************************************************)
(* PlaywrightRenderer: the browser, the contexts map, the two extractions  *)
(* of extractForBothViewports, and the close() of the route's finally.     *)
(* Browsers and contexts are numbered in the order of their creation.      *)
(***************************************************************************)
\* `${options.url}-${options.viewport.width}x${options.viewport.height}`
contextIdOf(v) == IF v = "mobile" THEN "url-360x640" ELSE "url-1366x768"

\* the awaits of extractCriticalCSS after createContext
ExtractionSteps == <<"loadPage", "getAboveFoldElements", "getAllCSS", "optimizeFontLoading">>

\* Map.prototype.delete
MapDelete(m, key) ==
  LET others(e) == e.key # key IN SelectSeq(m, others)

InitRenderer ==
  /\ pc = "request"
  /\ options = DefaultOptions
  /\ ast = <<>>
  /\ aboveFoldSelectors = {}
  /\ input = <<>>
  /\ rules = <<>>
  /\ calls = 0
  /\ NoText /\ NoCombine /\ NoRequests
  /\ main = "idle"
  /\ combineCalls = 0
  /\ task = [v \in Viewports |->
               [pc |-> "idle", error |-> FALSE, browser |-> 0, context |-> 0,
                registered |-> FALSE, held |-> 0]]
  /\ renderer = [browser |-> 0, launched |-> 0, running |-> {}, contexts |-> <<>>,
                 made |-> 0, open |-> {}, owner |-> <<>>,
                 closing |-> [pc |-> "idle", pending |-> <<>>, target |-> 0]]
  /\ fetcher = <<>>
  /\ heap = <<>>
  /\ runs = <<>>

OtherThanRenderer ==
  <<parserVars, textVars, combineVars, limiterVars, fetcher, heap, runs, combineCalls>>

\* the promise of extractCriticalCSS settles
settled(t) == [t EXCEPT !.pc = IF t.error THEN "rejected" ELSE "fulfilled"]

\* renderer.cleanup(contextId) up to its await: the context got from the map
\* is held across the await of its close()
enterCleanup(t, v, contexts) ==
  IF MapHas(contexts, contextIdOf(v))
  THEN [t EXCEPT !.pc = "context.close", !.held = MapGet(contexts, contextIdOf(v))]
  ELSE settled(t)

\* extractForBothViewports calls extractCriticalCSS twice; each call runs up to
\* its first await, which is that of playwright.launch when this.browser is
\* null, and that of browser.newContext otherwise
RouteCallsExtract ==
  /\ main = "idle"
  /\ main' = "awaiting"
  /\ task' = [v \in Viewports |->
                IF renderer.browser = 0 THEN [task[v] EXCEPT !.pc = "launch"]
                ELSE [task[v] EXCEPT !.pc = "newContext", !.browser = renderer.browser]]
  /\ UNCHANGED <<renderer, OtherThanRenderer>>

\* an awaited call of the extraction for viewport v returns
AwaitResolves(v) ==
  LET t == task[v]
      r == renderer
  IN
  /\ UNCHANGED <<main, OtherThanRenderer>>
  /\ CASE t.pc = "launch" ->
            \* this.browser = await playwright.launch(...)
            /\ renderer' = [r EXCEPT !.launched = @ + 1, !.running = @ \cup {r.launched + 1},
                                     !.browser = r.launched + 1]
            /\ task' = [task EXCEPT ![v] =
                          IF MapHas(r.contexts, contextIdOf(v))
                          THEN [t EXCEPT !.browser = r.launched + 1,
                                         !.pc = "contexts.close",
                                         !.held = MapGet(r.contexts, contextIdOf(v))]
                          ELSE [t EXCEPT !.browser = r.launched + 1, !.pc = "newContext"]]
       [] t.pc = "contexts.close" ->
            /\ renderer' = [r EXCEPT !.contexts = MapDelete(@, contextIdOf(v)),
                                     !.open = @ \ {t.held}]
            /\ task' = [task EXCEPT ![v] = [t EXCEPT !.pc = "newContext"]]
       [] t.pc = "newContext" ->
            /\ t.browser \in r.running
            /\ renderer' = [r EXCEPT !.made = @ + 1, !.open = @ \cup {r.made + 1},
                                     !.owner = Append(@, t.browser)]
            /\ task' = [task EXCEPT ![v] = [t EXCEPT !.context = r.made + 1, !.pc = "setup"]]
       [] t.pc = "setup" ->
            \* the session, the page and the observer are made; contexts.set
            /\ t.context \in r.open
            /\ renderer' = [r EXCEPT !.contexts = MapSet(@, contextIdOf(v), t.context)]
            /\ task' = [task EXCEPT ![v] =
                          [t EXCEPT !.registered = TRUE, !.pc = ExtractionSteps[1]]]
       [] InSeq(ExtractionSteps, t.pc) ->
            /\ t.context \in r.open
            /\ renderer' = r
            /\ task' = [task EXCEPT ![v] =
                          [t EXCEPT !.pc =
                             IF IndexOf(ExtractionSteps, t.pc) < Len(ExtractionSteps)
                             THEN ExtractionSteps[IndexOf(ExtractionSteps, t.pc) + 1]
                             ELSE "lcpObserver.cleanup"]]
       [] t.pc = "lcpObserver.cleanup" ->
            /\ renderer' = r
            /\ task' = [task EXCEPT ![v] = enterCleanup(t, v, r.contexts)]
       [] t.pc = "context.close" ->
            \* await context.close(); this.contexts.delete(contextId)
            /\ renderer' = [r EXCEPT !.open = @ \ {t.held},
                                     !.contexts = MapDelete(@, contextIdOf(v))]
            /\ task' = [task EXCEPT ![v] = settled(t)]
       [] OTHER -> FALSE

\* an awaited call of the extraction for viewport v throws
AwaitRejects(v) ==
  LET t == task[v]
  IN
  /\ UNCHANGED <<main, renderer, OtherThanRenderer>>
  /\ CASE t.pc \in {"launch", "contexts.close", "newContext", "setup"} ->
            \* createContext throws: renderingContext stays null, no cleanup
            task' = [task EXCEPT ![v] = [t EXCEPT !.error = TRUE, !.pc = "rejected"]]
       [] InSeq(ExtractionSteps, t.pc) ->
            task' = [task EXCEPT ![v] = [t EXCEPT !.error = TRUE, !.pc = "lcpObserver.cleanup"]]
       [] t.pc = "lcpObserver.cleanup" ->
            \* caught and logged; renderer.cleanup is called all the same
            task' = [task EXCEPT ![v] = enterCleanup(t, v, renderer.contexts)]
       [] t.pc = "context.close" ->
            \* cleanup throws before contexts.delete; caught and logged
            task' = [task EXCEPT ![v] = settled(t)]
       [] OTHER -> FALSE

\* await Promise.all([...]) in extractForBothViewports
RouteJoins ==
  /\ main = "awaiting"
  /\ allFulfilled(task) \/ someRejected(task)
  /\ main' = IF someRejected(task) THEN "rejected" ELSE "fulfilled"
  /\ UNCHANGED <<task, renderer, OtherThanRenderer>>

\* close() after its loop over the contexts: contexts.clear() and, when
\* this.browser is set, the call of browser.close()
afterContexts(r) ==
  [r EXCEPT !.contexts = <<>>,
            !.closing = IF r.browser # 0
                        THEN [pc |-> "browser.close", pending |-> <<>>, target |-> r.browser]
                        ELSE [pc |-> "done", pending |-> <<>>, target |-> 0]]

\* the route's finally calls extractor.close(), which calls renderer.close()
CloseStarts ==
  /\ main \in {"fulfilled", "rejected"}
  /\ renderer.closing.pc = "idle"
  /\ renderer' =
       IF renderer.contexts = <<>> THEN afterContexts(renderer)
       ELSE [renderer EXCEPT !.closing = [pc |-> "contexts",
                                          pending |-> MapValues(renderer.contexts),
                                          target |-> 0]]
  /\ UNCHANGED <<task, main, OtherThanRenderer>>

\* an await of close() returns
CloseResolves ==
  LET r == renderer
      c == r.closing
  IN
  /\ UNCHANGED <<task, main, OtherThanRenderer>>
  /\ CASE c.pc = "contexts" ->
            LET closed == [r EXCEPT !.open = @ \ {Head(c.pending)},
                                    !.closing.pending = Tail(c.pending)]
            IN  renderer' = IF Tail(c.pending) = <<>> THEN afterContexts(closed) ELSE closed
       [] c.pc = "browser.close" ->
            \* the contexts of a browser close with it; this.browser = null
            renderer' = [r EXCEPT !.running = @ \ {c.target},
                                  !.open = {x \in @ : r.owner[x] # c.target},
                                  !.browser = 0,
                                  !.closing.pc = "done"]
       [] OTHER -> FALSE

\* an await of close() throws
CloseRejects ==
  /\ renderer.closing.pc \in {"contexts", "browser.close"}
  /\ renderer' = [renderer EXCEPT !.closing.pc = "failed"]
  /\ UNCHANGED <<task, main, OtherThanRenderer>>

NextRenderer ==
  \/ RouteCallsExtract
  \/ \E v \in Viewports : AwaitResolves(v)
  \/ \E v \in Viewports : AwaitRejects(v)
  \/ RouteJoins
  \/ CloseStarts
  \/ CloseResolves
  \/ CloseRejects

SpecRenderer == InitRenderer /\ [][NextRenderer]_vars

\* C24: the two concurrent createContext calls of one renderer launch at most
\* one browser, and once close() has completed no launched browser is running
C24_SingleBrowser ==
  /\ renderer.launched <= 1
  /\ renderer.closing.pc = "done" => renderer.running = {}

\* C25: once an extraction that registered a context has settled, by
\* returning or by throwing, that context is closed and its contextId is no
\* longer a key of the contexts map
C25_ContextReleased ==
  \A v \in Viewports :
    (task[v].pc \in {"fulfilled", "rejected"} /\ task[v].registered) =>
      /\ task[v].context \notin renderer.open
      /\ ~MapHas(renderer.contexts, contextIdOf(v))

(***************************************************************************)
(* The rate limiter of a server that already holds the records of          *)
(* SWEEP_SIZE other clients, so that the clean-up of old entries runs.     *)
(***************************************************************************)
\* the address of the i-th of the other clients
OtherClient(i) == "10.0.1." \o ToString(i)

\* the records of the other clients: each sent one request, every second one
\* a window before time 0 and the others at time 0
OtherRecords ==
  [i \in 1..SWEEP_SIZE |->
     [key |-> OtherClient(i),
      value |-> [count |-> 1,
                 resetTime |-> IF i % 2 = 0 THEN WINDOW_MS ELSE 0]]]

InitLimiterSwept ==
  /\ pc = "listening"
  /\ options = DefaultOptions
  /\ ast = <<>>
  /\ aboveFoldSelectors = {}
  /\ input = <<>>
  /\ rules = <<>>
  /\ calls = 0
  /\ NoText /\ NoCombine /\ NoExtraction
  /\ requestCounts = OtherRecords
  /\ now = 0
  /\ admittedAt = [ip \in IPs |-> <<>>]
  /\ response = <<>>
  /\ NoLater

\* the busy client sends requests, and the clock advances by whole windows
NextLimiterSwept ==
  \/ RateLimiter(BusyClient)
  \/ Tick /\ now' = now + WINDOW_MS

SpecLimiterSwept == InitLimiterSwept /\ [][NextLimiterSwept]_vars

\* the step is the handling of a request of the client response'.ip
Handles(clientIP) == now' = now /\ response' # <<>> /\ response'.ip = clientIP

\* every record of before is in its place after the step, that of clientIP
\* possibly with another value
KeptInPlace(clientIP) ==
  /\ Len(requestCounts') >= Len(requestCounts)
  /\ IF MapHas(requestCounts, clientIP)
     THEN LET p == CHOOSE i \in 1..Len(requestCounts) : requestCounts[i].key = clientIP
          IN  /\ SubSeq(requestCounts', 1, p - 1) = SubSeq(requestCounts, 1, p - 1)
              /\ requestCounts'[p].key = clientIP
              /\ SubSeq(requestCounts', p + 1, Len(requestCounts))
                   = SubSeq(requestCounts, p + 1, Len(requestCounts))
     ELSE SubSeq(requestCounts', 1, Len(requestCounts)) = requestCounts

\* the clients whose window has not expired
Unexpired ==
  {requestCounts[i].key :
     i \in {j \in 1..Len(requestCounts) : now <= requestCounts[j].value.resetTime}}

\* C26: a request answered 429 leaves the client's record as it was (count
\* and resetTime); a request that arrives after the resetTime of the client's
\* window is admitted and starts a new window with count 1, whatever was
\* rejected before; and the clean-up at the head of the handler removes no
\* record whose window has not expired: either no record is removed at all,
\* or the clients of the unexpired records are all still recorded
C26_RejectionKeepsWindow ==
  [][\A ip \in IPs :
       Handles(ip) =>
         /\ MapHas(requestCounts, ip) =>
              LET record == MapGet(requestCounts, ip)
              IN  /\ response'.status = 429 =>
                       /\ MapHas(requestCounts', ip)
                       /\ MapGet(requestCounts', ip) = record
                  /\ now > record.resetTime =>
                       /\ response'.status = 200
                       /\ MapGet(requestCounts', ip) =
                            [count |-> 1, resetTime |-> now + WINDOW_MS]
         /\ \/ KeptInPlace(ip)
            \/ Unexpired \subseteq {requestCounts'[i].key : i \in 1..Len(requestCounts')}]_vars

\* the busy client is answered 429 by a handler whose clean-up has just run
\* and has kept its record and those of the windows begun at time 0
C26_Witness ==
  /\ response # <<>>
  /\ response.status = 429
  /\ now > WINDOW_MS
  /\ Len(requestCounts) > 1
  /\ Len(requestCounts) <= SWEEP_SIZE
  /\ MapGet(requestCounts, BusyClient) = [count |-> RATE_LIMIT, resetTime |-> now]

(***************************************************************************)
(* The flags includeShadows, includeAnimations and includeTransitions.     *)
(***************************************************************************)
\* the options differ at most in the three flags
SameButStyleFlags(o1, o2) == o1.includeHoverStates = o2.includeHoverStates

Null == <<"null">>

\* this.maxCacheSize, taken small: the constructor's default is 100
maxCacheSize == 2

\* this.retryAttempts = options.retryAttempts || 1
retryAttempts == 1

\* this.defaultTTL = options.defaultTTL || 24 * 60 * 60 * 1000
defaultTTL == 86400000

\* the most fetchMultiple calls of a run, and the most urls of one call
MaxBatches == 2

MaxUrls == 2

\* the most fetchStylesheet calls of a run that miss the cache
MaxFetches == 3

\* one url more than the cache can hold
StylesheetUrls == {"https://cdn.test/" \o ToString(i) \o ".css" : i \in 1..(maxCacheSize + 1)}

UrlArrays == UNION {[1..n -> StylesheetUrls] : n \in 0..MaxUrls}

\* what httpRequest resolves with: { statusCode, headers, body }; maxAge is
\* the number of the max-age directive, -1 without one
Response(statusCode, body, etag, maxAge) ==
  [statusCode |-> statusCode, body |-> body,
   headers |-> [etag |-> etag, maxAge |-> maxAge]]

NotModified == Response(304, <<>>, <<"v", "1">>, -1)

\* 2xx responses: a sheet with an ETag that is fresh for a second, and an
\* empty sheet without caching headers
OkResponses ==
  {Response(200, <<"a", "{", "}">>, <<"v", "1">>, 1),
   Response(200, <<>>, Undefined, -1)}

\* a value that `if (cached)` and `cached && cached.etag` take as false
NoValue(s) == s = Null \/ Falsy(s)

parseCacheControl(headers) ==
  IF headers.maxAge < 0
  THEN 0
  ELSE IF headers.maxAge * 1000 < defaultTTL THEN headers.maxAge * 1000 ELSE defaultTTL

\* this.parseCacheControl(result.headers) || this.defaultTTL
ttlOf(headers) ==
  IF parseCacheControl(headers) = 0 THEN defaultTTL ELSE parseCacheControl(headers)

\* a lookup that does not look at expiresAt
getFromCacheWhateverItsAge(cache, url, t) ==
  IF ~MapHas(cache, url)
  THEN [cache |-> cache, value |-> Null]
  ELSE [cache |-> MapSet(cache, url, [MapGet(cache, url) EXCEPT !.lastAccessed = t]),
        value |-> MapGet(cache, url).css]

\* the cache after the lookup, and the value the lookup returns
getFromCache(cache, url, t) ==
  IF ~MapHas(cache, url)
  THEN [cache |-> cache, value |-> Null]
  ELSE LET cached == MapGet(cache, url)
       IN  IF t > cached.expiresAt
           THEN [cache |-> MapDelete(cache, url), value |-> Null]
           ELSE [cache |-> MapSet(cache, url, [cached EXCEPT !.lastAccessed = t]),
                 value |-> cached.css]

\* the entry that the loop of evictLRU ends with: the first one, in the
\* order of the Map, that no entry is older than
oldestIn(cache) ==
  CHOOSE i \in 1..Len(cache) :
    /\ \A j \in 1..Len(cache) : cache[i].value.lastAccessed <= cache[j].value.lastAccessed
    /\ \A j \in 1..(i - 1) : cache[i].value.lastAccessed < cache[j].value.lastAccessed

\* an eviction of the entry that was stored first
evictFirstStored(cache) ==
  IF cache = <<>> THEN cache ELSE Tail(cache)

evictLRU(cache) ==
  IF cache = <<>> \/ cache[oldestIn(cache)].key = ""
  THEN cache
  ELSE MapDelete(cache, cache[oldestIn(cache)].key)

setCache(cache, url, body, ttl, etag, t, id) ==
  LET room == IF Len(cache) >= maxCacheSize THEN evictLRU(cache) ELSE cache
  IN  MapSet(room, url, [css |-> body, expiresAt |-> t + ttl, etag |-> etag,
                         lastAccessed |-> t, id |-> id])

\* getAllCSS of either extraction calls fetchMultiple on the one fetcher of
\* the renderer
Callers == Viewports

\* the call fetchStylesheet(url) before its first statement
NewFetch(url) ==
  [url |-> url, pc |-> "called", attempt |-> 0, attempts |-> 0, requests |-> 0,
   held |-> 0, heldCss |-> Null, result |-> Null, via |-> "none"]

\* fetchWithCache up to its first await: the request carries If-None-Match
\* when the Map holds an entry with an ETag, whatever its expiresAt
fetchWithCacheStarts(f, cache) ==
  IF MapHas(cache, f.url) /\ ~NoValue(MapGet(cache, f.url).etag)
  THEN [f EXCEPT !.pc = "revalidate", !.attempts = @ + 1, !.requests = @ + 1,
                 !.held = MapGet(cache, f.url).id,
                 !.heldCss = MapGet(cache, f.url).css]
  ELSE [f EXCEPT !.pc = "fresh", !.attempts = @ + 1, !.requests = @ + 1]

\* a loop test that lets one more attempt through
loopContinuesOnceMore(attempt) == attempt <= retryAttempts + 1

\* the test of the retry loop
loopContinues(attempt) == attempt <= retryAttempts

\* the catch of the retry loop, attempt++ and the next turn of the loop or
\* the return null after it
fetchWithCacheThrows(f, cache) ==
  IF loopContinues(f.attempt + 1)
  THEN fetchWithCacheStarts([f EXCEPT !.attempt = @ + 1], cache)
  ELSE [f EXCEPT !.attempt = @ + 1, !.pc = "done", !.result = Null, !.via = "failed"]

\* fetchStylesheet up to its first await or, on a cache hit, its return
fetchStylesheetStarts(url, cache, t) ==
  LET looked == getFromCache(cache, url, t)
  IN  IF ~NoValue(looked.value)
      THEN [cache |-> looked.cache,
            f |-> [NewFetch(url) EXCEPT !.pc = "done", !.result = looked.value,
                                        !.via = "cache"]]
      ELSE [cache |-> looked.cache,
            f |-> fetchWithCacheStarts(NewFetch(url), looked.cache)]

\* urls.map(url => this.fetchStylesheet(url, pageUrl)): the calls start one
\* after the other, each on the cache the one before it left
RECURSIVE startAll(_, _, _, _)
startAll(urls, k, cache, t) ==
  IF k > Len(urls)
  THEN [cache |-> cache, fetch |-> <<>>]
  ELSE LET first == fetchStylesheetStarts(urls[k], cache, t)
           rest == startAll(urls, k + 1, first.cache, t)
       IN  [cache |-> rest.cache, fetch |-> <<first.f>> \o rest.fetch]

\* results.filter(fulfilled and value !== null).map(value)
successful(fetch) ==
  LET notNull(f) == f.result # Null
      kept == SelectSeq(fetch, notNull)
  IN  [i \in 1..Len(kept) |-> kept[i].result]

\* cached.lastAccessed = Date.now() on the entry object held since before
\* the await, which the Map may no longer hold
touchHeld(cache, url, id, t) ==
  IF MapHas(cache, url) /\ MapGet(cache, url).id = id
  THEN MapSet(cache, url, [MapGet(cache, url) EXCEPT !.lastAccessed = t])
  ELSE cache

InitFetcher ==
  /\ pc = "request"
  /\ options = DefaultOptions
  /\ ast = <<>>
  /\ aboveFoldSelectors = {}
  /\ input = <<>>
  /\ rules = <<>>
  /\ calls = 0
  /\ NoText /\ NoCombine /\ NoExtraction /\ NoRequests
  /\ renderer = <<>>
  /\ heap = <<>>
  /\ runs = <<>>
  /\ fetcher = [cache |-> <<>>, made |-> 0, batches |-> 0, started |-> 0,
                call |-> [c \in Callers |->
                            [pc |-> "idle", fetch |-> <<>>, returned |-> <<>>]]]

OtherThanFetcher ==
  <<parserVars, textVars, combineVars, asyncVars, renderer, heap, runs,
    requestCounts, admittedAt, response>>

\* fetchMultiple(urls, pageUrl) up to its await, or its return of [] for no
\* urls
FetchMultiple(c, urls) ==
  /\ fetcher.call[c].pc # "awaiting"
  /\ fetcher.batches < MaxBatches
  /\ LET started == startAll(urls, 1, fetcher.cache, now)
         missed(f) == f.via # "cache"
     IN  /\ fetcher.started + Len(SelectSeq(started.fetch, missed)) <= MaxFetches
         /\ fetcher' = [fetcher EXCEPT
           !.batches = @ + 1,
           !.started = @ + Len(SelectSeq(started.fetch, missed)),
           !.cache = started.cache,
           !.call[c] = [pc |-> IF urls = <<>> THEN "returned" ELSE "awaiting",
                        fetch |-> started.fetch, returned |-> <<>>]]
  /\ UNCHANGED <<now, OtherThanFetcher>>

\* the request that call k of caller c awaits is answered
RequestResolves(c, k, result) ==
  LET f == fetcher.call[c].fetch[k]
  IN
  /\ f.pc \in {"revalidate", "fresh"}
  /\ result.statusCode = 304 => f.pc = "revalidate"
  /\ IF result.statusCode = 304
     THEN fetcher' = [fetcher EXCEPT
            !.cache = touchHeld(@, f.url, f.held, now),
            !.call[c].fetch[k] = [f EXCEPT !.pc = "done", !.result = f.heldCss,
                                           !.held = 0, !.heldCss = Null,
                                           !.via = "304"]]
     ELSE fetcher' = [fetcher EXCEPT
            !.made = @ + 1,
            !.cache = setCache(@, f.url, result.body, ttlOf(result.headers),
                               result.headers.etag, now, fetcher.made + 1),
            !.call[c].fetch[k] = [f EXCEPT !.pc = "done", !.result = result.body,
                                           !.held = 0, !.heldCss = Null,
                                           !.via = "body"]]
  /\ UNCHANGED <<now, OtherThanFetcher>>

\* the request fails: an error, a timeout or a status other than 2xx and 304.
\* A failed revalidation is followed by the fresh request of the same attempt
RequestRejects(c, k) ==
  LET f == fetcher.call[c].fetch[k]
  IN
  /\ f.pc \in {"revalidate", "fresh"}
  /\ fetcher' = [fetcher EXCEPT !.call[c].fetch[k] =
                   IF f.pc = "revalidate"
                   THEN [f EXCEPT !.pc = "fresh", !.requests = @ + 1,
                                  !.held = 0, !.heldCss = Null]
                   ELSE fetchWithCacheThrows(f, fetcher.cache)]
  /\ UNCHANGED <<now, OtherThanFetcher>>

\* Promise.allSettled is settled and fetchMultiple returns
FetchMultipleReturns(c) ==
  /\ fetcher.call[c].pc = "awaiting"
  /\ \A k \in 1..Len(fetcher.call[c].fetch) : fetcher.call[c].fetch[k].pc = "done"
  /\ fetcher' = [fetcher EXCEPT !.call[c] =
                   [pc |-> "returned", fetch |-> <<>>,
                    returned |-> successful(fetcher.call[c].fetch)]]
  /\ UNCHANGED <<now, OtherThanFetcher>>

\* Date.now() advances by a second
ClockAdvances ==
  /\ now < MaxTicks * 1000
  /\ now' = now + 1000
  /\ UNCHANGED <<fetcher, OtherThanFetcher>>

NextFetcher ==
  \/ \E c \in Callers, urls \in UrlArrays : FetchMultiple(c, urls)
  \/ \E c \in Callers, k \in 1..MaxUrls, result \in OkResponses \cup {NotModified} :
       k <= Len(fetcher.call[c].fetch) /\ RequestResolves(c, k, result)
  \/ \E c \in Callers, k \in 1..MaxUrls :
       k <= Len(fetcher.call[c].fetch) /\ RequestRejects(c, k)
  \/ \E c \in Callers : FetchMultipleReturns(c)
  \/ ClockAdvances

SpecFetcher == InitFetcher /\ [][NextFetcher]_vars

\* the urls that the cache holds
CachedUrls(cache) == {cache[i].key : i \in 1..Len(cache)}

\* a step in which setCache ran
Stores == fetcher'.made # fetcher.made

\* C28: the cache never holds more than maxCacheSize entries, whatever the
\* fetches and their order, and an entry that leaves the cache when another
\* is stored leaves a cache that was at capacity and was last accessed no
\* later than any entry of it.
C28_CacheBounded ==
  /\ [](Len(fetcher.cache) <= maxCacheSize)
  /\ [][Stores =>
          \A gone \in CachedUrls(fetcher.cache) \ CachedUrls(fetcher'.cache) :
            /\ Len(fetcher.cache) >= maxCacheSize
            /\ \A url \in CachedUrls(fetcher.cache) :
                 MapGet(fetcher.cache, gone).lastAccessed
                   <= MapGet(fetcher.cache, url).lastAccessed]_vars

\* a full cache whose first entry was accessed after its second one has lost
\* the second one to a third stylesheet, before any entry could expire
C28_Witness ==
  /\ Len(fetcher.cache) = maxCacheSize
  /\ fetcher.made > maxCacheSize
  /\ now <= 1000
  /\ \E url \in StylesheetUrls : ~MapHas(fetcher.cache, url)
  /\ fetcher.cache[1].value.lastAccessed > 0
  /\ fetcher.cache[1].value.id = 1
  /\ fetcher.cache[Len(fetcher.cache)].value.id = maxCacheSize + 1

\* the entry of url is in the cache and its expiresAt has passed
Expired(cache, url) == MapHas(cache, url) /\ now > MapGet(cache, url).expiresAt

\* the calls of fetchStylesheet that a step starts
StartedCalls ==
  IF fetcher'.batches = fetcher.batches
  THEN {}
  ELSE {g \in UNION {{fetcher'.call[c].fetch[k] : k \in 1..Len(fetcher'.call[c].fetch)} :
                       c \in {d \in Callers : fetcher'.call[d] # fetcher.call[d]}} : TRUE}

\* before and after, the calls of fetchStylesheet that return in a step in
\* which a request is answered
AnsweredCalls ==
  IF fetcher'.batches # fetcher.batches
  THEN {}
  ELSE {fg \in UNION {{<<fetcher.call[c].fetch[k], fetcher'.call[c].fetch[k]>> :
                         k \in 1..Len(fetcher'.call[c].fetch)} : c \in Callers} :
          fg[1].pc # "done" /\ fg[2].pc = "done"}

\* C29: a call of fetchStylesheet returns CSS of the cache without a request
\* only if the entry's expiresAt has not passed; a call that finds an expired
\* entry removes it and sends a request for the stylesheet; and a call that
\* returns CSS of an entry after a request returns it on a 304 answer to a
\* request sent with If-None-Match.
C29_CacheTTL ==
  [][/\ \A g \in StartedCalls :
          /\ g.via = "cache" =>
               /\ MapHas(fetcher.cache, g.url)
               /\ ~Expired(fetcher.cache, g.url)
               /\ g.result = MapGet(fetcher.cache, g.url).css
               /\ g.requests = 0
          /\ Expired(fetcher.cache, g.url) =>
               /\ ~MapHas(fetcher'.cache, g.url)
               /\ g.pc = "fresh"
               /\ g.requests = 1
     /\ \A fg \in AnsweredCalls :
          /\ fg[2].via # "cache"
          /\ fg[2].requests >= 1
          /\ fg[2].via = "304" =>
               /\ fg[1].pc = "revalidate"
               /\ fg[2].result = fg[1].heldCss]_vars

\* the one entry stored so far has expired and a call has removed it and
\* sent a request for its stylesheet
C29_Witness ==
  /\ fetcher.made = 1
  /\ fetcher.cache = <<>>
  /\ fetcher.batches = 2
  /\ \E c \in Callers : \E k \in 1..Len(fetcher.call[c].fetch) :
       /\ fetcher.call[c].fetch[k].pc = "fresh"
       /\ fetcher.call[c].fetch[k].attempt = 0

\* every call of fetchStylesheet that is running or has returned and whose
\* fetchMultiple has not returned
RunningCalls ==
  UNION {{fetcher.call[c].fetch[k] : k \in 1..Len(fetcher.call[c].fetch)} : c \in Callers}

\* before and after, the calls of a step that is not the start of a
\* fetchMultiple
SteppedCalls ==
  IF fetcher'.batches # fetcher.batches
  THEN {}
  ELSE UNION {{<<fetcher.call[c].fetch[k], fetcher'.call[c].fetch[k]>> :
                 k \in 1..Len(fetcher'.call[c].fetch)} : c \in Callers}

\* the callers whose fetchMultiple returns in a step, after its await
Returning ==
  {c \in Callers : fetcher.call[c].pc = "awaiting" /\ fetcher'.call[c].pc = "returned"}

\* the places in fetch of the calls that did not return null
Fulfilled(fetch) == {k \in 1..Len(fetch) : fetch[k].result # Null}

\* C30: a call of fetchStylesheet always returns, a string or null; it makes
\* at most retryAttempts + 1 attempts; the attempt that succeeds is its last
\* and its body is what the call returns; the call returns null exactly when
\* retryAttempts + 1 attempts have failed; a request that fails leaves the
\* cache as it was; and fetchMultiple returns the results that are not null,
\* in the order of their urls, whichever of the other calls returned null.
C30_Retry ==
  /\ [](\A f \in RunningCalls :
          /\ f.attempts <= retryAttempts + 1
          /\ f.pc \in {"revalidate", "fresh", "done"}
          /\ f.pc = "done" =>
               /\ f.via \in {"cache", "304", "body", "failed"}
               /\ (f.result = Null) = (f.via = "failed")
               /\ f.via = "failed" => f.attempts = retryAttempts + 1
               /\ f.via = "cache" => f.attempts = 0)
  /\ [][/\ \A fg \in SteppedCalls :
             \* a call that has returned makes no further attempt
             /\ fg[1].pc = "done" => fg[2] = fg[1]
             \* the attempt that succeeds is the last one, and the body
             \* returned is the one stored
             /\ (fg[1].pc # "done" /\ fg[2].via \in {"304", "body"}) =>
                  /\ fg[2].attempts = fg[1].attempts
                  /\ fg[2].requests = fg[1].requests
                  /\ fg[2].via = "body" =>
                       /\ Stores
                       /\ MapGet(fetcher'.cache, fg[2].url).id = fetcher'.made
                       /\ MapGet(fetcher'.cache, fg[2].url).css = fg[2].result
             \* a failed request: the cache stays, and the call goes on to
             \* its next request unless it was the last attempt's fresh one
             /\ (fg[1].pc # "done"
                   /\ (fg[2].via = "failed" \/ fg[2].requests > fg[1].requests)) =>
                  /\ fetcher'.cache = fetcher.cache
                  /\ (fg[2].via = "failed") =
                       (fg[1].pc = "fresh" /\ fg[1].attempts = retryAttempts + 1)
        /\ \A c \in Returning :
             LET fetch == fetcher.call[c].fetch
                 returned == fetcher'.call[c].returned
             IN  /\ Len(returned) = Cardinality(Fulfilled(fetch))
                 /\ \A k \in Fulfilled(fetch) :
                      returned[Cardinality({j \in Fulfilled(fetch) : j <= k})]
                        = fetch[k].result]_vars

\* the first fetchMultiple, of two stylesheets that were not cached, has
\* returned one body: the other call returned null after its attempts
C30_Witness ==
  /\ fetcher.batches = 1
  /\ fetcher.started = 2
  /\ fetcher.made = 1
  /\ Len(fetcher.cache) = 1
  /\ \E c \in Callers :
       /\ fetcher.call[c].pc = "returned"
       /\ fetcher.call[c].returned = <<fetcher.cache[1].value.css>>

====
